---- MODULE Spec2Model ----
(***************************************************************************)
(* A model of the KPI pipeline of almacena-ledger:                         *)
(*   - the pipeline orchestrator KPIPipeline (data_pipeline.py),           *)
(*   - the two currency converters convert_to_eur (fetch_from_sheets.py)   *)
(*     and convert_usd_to_eur (convert_kpis_wide_to_long.py),              *)
(*   - the wide/long reshaper (convert_kpis_wide_to_long.py),              *)
(*   - the cleaning and metric functions of the pipeline, and the period   *)
(*     continuity check (validation_service.py), called on their own,      *)
(*   - the authentication and user services (scripts/auth.py,              *)
(*     scripts/user_service.py) and the auth routes of the API,            *)
(*   - concurrent login requests, each with its own database session,      *)
(*   - concurrent dashboard-update runs started by webhook_server.py.      *)
(*                                                                         *)
(* Numbers are exact decimals [m |-> mantissa, e |-> decimal places]; the  *)
(* code's binary floating point is abstracted to exact arithmetic.        *)
(* Strings are sequences of one-character strings; times are minutes.      *)
(***************************************************************************)
EXTENDS Integers, Sequences, FiniteSets, TLC

VARIABLES
    \* ---- KPIPipeline (data_pipeline.py) ----
    data_source,        \* self.data_source
    raw_data,           \* self.raw_data
    transformed_data,   \* self.transformed_data
    disk,               \* the files export_for_dashboard writes in output_dir
    out_dir,            \* whether output_dir exists on disk
    pc,                 \* position of a run_pipeline call in progress
    run,                \* bookkeeping of the run_pipeline call in progress
    last,               \* the outcome of the most recent call, as the caller sees it
    ncalls,             \* number of calls made so far
    \* ---- fetch_from_sheets.main ----
    sheet,              \* df: the table fetched from the sheet
    df_usd,             \* df_usd: the cleaned table, source currency
    df_eur,             \* df_eur: the table the converter returned
    fpc,                \* position in main
    \* ---- convert_kpis_wide_to_long.main ----
    wide,               \* the csv in wide format, as read
    df_long,            \* the long table
    df_pivot,           \* the caller's pipeline-format table
    df_conv,            \* the table a direct converter call returned
    convert_currency,   \* the flag create_pipeline_compatible_format was given
    kpc,                \* position in main
    kerr,               \* the exception that ended main
    \* ---- a single call of one function of the repository ----
    arg,                \* the argument of the call
    res,                \* what the call returned
    upc,                \* position of the caller
    \* ---- the API: AuthService, UserService, the auth routes ----
    user,               \* the row of the users table
    now,                \* datetime.utcnow(), in minutes
    nticks,             \* number of times the clock has advanced
    tokens,             \* the JWT tokens issued so far
    loggedout,          \* the tokens a logout was answered 200 for
    cookie,             \* the auth_token cookie of the browser
    resp,               \* the outcome of the most recent call or request
    nreq,               \* parity of the number of calls answered so far
    \* ---- login requests served concurrently ----
    sessions,           \* per request: position in authenticate, the row its session loaded
    \* ---- dashboard updates run concurrently (webhook_server.py) ----
    live_sheet,         \* the version of the sheet a fetch returns now
    runs,               \* per run of fetch_from_sheets.main: position, the version it fetched
    csv_file,           \* what OUTPUT_CSV holds
    json_file           \* what OUTPUT_JSON holds

pvars == <<data_source, raw_data, transformed_data, disk, out_dir, pc, run, last, ncalls>>

fvars == <<sheet, df_usd, df_eur, fpc>>

kvars == <<wide, df_long, df_pivot, df_conv, convert_currency, kpc, kerr>>

uvars == <<arg, res, upc>>

avars == <<user, now, nticks, tokens, loggedout, cookie, resp, nreq>>

dvars == <<live_sheet, runs, csv_file, json_file>>

wvars == <<avars, sessions, dvars>>

vars == <<pvars, fvars, kvars, uvars, wvars>>

\* Python's None
None == [none |-> TRUE]

(***************************************************************************)
(* Bounds                                                                  *)
(***************************************************************************)
MaxCalls == 4
MaxRows == 2
MaxCellLen == 3
MaxMonths == 3
MaxPeriods == 3

(***************************************************************************)
(* Strings: sequences of one-character strings                             *)
(***************************************************************************)
UpperCase == <<"A","B","C","D","E","F","G","H","I","J","K","L","M",
               "N","O","P","Q","R","S","T","U","V","W","X","Y","Z">>
LowerCase == <<"a","b","c","d","e","f","g","h","i","j","k","l","m",
               "n","o","p","q","r","s","t","u","v","w","x","y","z">>
Digits == <<"0","1","2","3","4","5","6","7","8","9">>

\* the position of c in the sequence s (0 when absent)
IndexOf(c, s) == IF \E i \in 1..Len(s) : s[i] = c
                 THEN CHOOSE i \in 1..Len(s) : s[i] = c /\ \A j \in 1..(i-1) : s[j] # c
                 ELSE 0

IsDigit(c) == IndexOf(c, Digits) # 0
DigitVal(c) == IndexOf(c, Digits) - 1

\* str.lower() on one character
LowerChar(c) == IF IndexOf(c, UpperCase) # 0 THEN LowerCase[IndexOf(c, UpperCase)] ELSE c

\* str.lower()
Lower(s) == [i \in 1..Len(s) |-> LowerChar(s[i])] \o <<>>

\* `sub in s`
Contains(s, sub) ==
    \E i \in 0..(Len(s) - Len(sub)) : \A j \in 1..Len(sub) : s[i + j] = sub[j]

\* characters str.strip() removes
IsSpace(c) == c \in {" ", "\t", "\n", "\r"}

\* str.strip()
Strip(s) ==
    IF \A i \in 1..Len(s) : IsSpace(s[i]) THEN <<>>
    ELSE LET a == CHOOSE i \in 1..Len(s) : ~IsSpace(s[i]) /\ \A j \in 1..(i-1) : IsSpace(s[j])
             b == CHOOSE i \in 1..Len(s) : ~IsSpace(s[i]) /\ \A j \in (i+1)..Len(s) : IsSpace(s[j])
         IN SubSeq(s, a, b)

\* str.replace(c, '') for a one-character c
RemoveChar(s, c) == LET keep(x) == x # c IN SelectSeq(s, keep)

\* the printable ASCII characters in code order, from the blank (code 32) on
Ascii == <<
    " ", "!", "\"", "#", "$", "%", "&", "'", "(", ")", "*", "+", ",", "-", ".", "/",
    "0", "1", "2", "3", "4", "5", "6", "7", "8", "9", ":", ";", "<", "=", ">", "?",
    "@", "A", "B", "C", "D", "E", "F", "G", "H", "I", "J", "K", "L", "M", "N", "O",
    "P", "Q", "R", "S", "T", "U", "V", "W", "X", "Y", "Z", "[", "\\", "]", "^", "_",
    "backquote", "a", "b", "c", "d", "e", "f", "g", "h", "i", "j", "k", "l", "m", "n", "o",
    "p", "q", "r", "s", "t", "u", "v", "w", "x", "y", "z", "{", "|", "}", "~" >>

\* ord(c)
Ord(c) == 31 + IndexOf(c, Ascii)

\* Python's `a < b` on strings: by code point, a proper prefix first
StrLess(a, b) ==
    LET m == IF Len(a) < Len(b) THEN Len(a) ELSE Len(b)
        differ == {i \in 1..m : a[i] # b[i]}
    IN IF differ = {} THEN Len(a) < Len(b)
       ELSE LET d == CHOOSE i \in differ : \A j \in differ : i <= j
            IN Ord(a[d]) < Ord(b[d])

\* str.replace(c, r) for a one-character c
RECURSIVE ReplaceChar(_, _, _)
ReplaceChar(s, c, r) ==
    IF s = <<>> THEN <<>>
    ELSE (IF Head(s) = c THEN r ELSE <<Head(s)>>) \o ReplaceChar(Tail(s), c, r)

\* s.startswith(p), s.endswith(p)
StartsWith(s, p) == Len(p) <= Len(s) /\ SubSeq(s, 1, Len(p)) = p
EndsWith(s, p) == Len(p) <= Len(s) /\ SubSeq(s, Len(s) - Len(p) + 1, Len(s)) = p

\* a stable sort of s by less: an element comes after the elements less than
\* it and after the earlier elements that are neither less nor greater
SortBy(s, less(_, _)) ==
    LET n == Len(s)
        before(i) == {j \in 1..n : less(s[j], s[i]) \/ (~less(s[i], s[j]) /\ j < i)}
        rank == [i \in 1..n |-> Cardinality(before(i))] \o <<>>
    IN [k \in 1..n |-> s[CHOOSE i \in 1..n : rank[i] = k - 1]] \o <<>>

\* the elements of the set S as a sequence sorted by less (a strict total order on S)
SortSet(S, less(_, _)) ==
    [k \in 1..Cardinality(S) |->
        CHOOSE x \in S : Cardinality({y \in S : less(y, x)}) = k - 1] \o <<>>

(***************************************************************************)
(* Numbers: exact decimals m / 10^e, kept normalised (no trailing zero     *)
(* decimal).  NaN is the missing float.                                    *)
(***************************************************************************)
RECURSIVE Norm(_, _)
Norm(m, e) == IF e > 0 /\ m % 10 = 0 THEN Norm(m \div 10, e - 1) ELSE [m |-> m, e |-> e]

Dec(m, e) == Norm(m, e)

\* float multiplication `a * b`
Mul(a, b) == Norm(a.m * b.m, a.e + b.e)

IsZero(a) == a.m = 0

\* the digits of s read as a natural number
RECURSIVE DigitsVal(_)
DigitsVal(s) == IF s = <<>> THEN 0
                ELSE 10 * DigitsVal(SubSeq(s, 1, Len(s) - 1)) + DigitVal(s[Len(s)])

(***************************************************************************)
(* The label tables of the code                                            *)
(***************************************************************************)
\* the known-label table of standardize_metric_name: <<label, key>>
metric_mapping == <<
    << <<"G", "M", "V">>,
       <<"g", "m", "v">> >>,
    << <<"F", "u", "n", "d", "e", "d", " ", "A", "m", "o", "u", "n", "t">>,
       <<"f", "u", "n", "d", "e", "d", "_", "a", "m", "o", "u", "n", "t">> >>,
    << <<"A", "v", "g", " ", "D", "a", "y", "s", " ", "O", "u", "t", "s", "t", "a", "n", "d", "i", "n", "g">>,
       <<"a", "v", "g", "_", "d", "a", "y", "s", "_", "o", "u", "t", "s", "t", "a", "n", "d", "i", "n", "g">> >>,
    << <<"#", " ", "I", "n", "v", "o", "i", "c", "e", "s">>,
       <<"n", "u", "m", "_", "i", "n", "v", "o", "i", "c", "e", "s">> >>,
    << <<"#", " ", "B", "o", "x", "e", "s">>,
       <<"n", "u", "m", "_", "b", "o", "x", "e", "s">> >>,
    << <<"%", " ", "G", "M", "V", " ", "I", "n", "s", "u", "r", "e", "d">>,
       <<"g", "m", "v", "_", "i", "n", "s", "u", "r", "e", "d", "_", "p", "c", "t">> >>,
    << <<"A", "r", "r", "a", "n", "g", "e", "m", "e", "n", "t", " ", "F", "e", "e", "s">>,
       <<"a", "r", "r", "a", "n", "g", "e", "m", "e", "n", "t", "_", "f", "e", "e", "s">> >>,
    << <<"L", "o", "g", "i", "s", "t", "i", "c", " ", "F", "e", "e", "s">>,
       <<"l", "o", "g", "i", "s", "t", "i", "c", "_", "f", "e", "e", "s">> >>,
    << <<"L", "o", "g", "i", "s", "t", "i", "c", " ", "C", "o", "s", "t", "s">>,
       <<"l", "o", "g", "i", "s", "t", "i", "c", "_", "c", "o", "s", "t", "s">> >>,
    << <<"C", "a", "r", "g", "o", " ", "I", "n", "s", "u", "r", "a", "n", "c", "e", " ", "F", "e", "e", "s">>,
       <<"c", "a", "r", "g", "o", "_", "i", "n", "s", "u", "r", "a", "n", "c", "e", "_", "f", "e", "e", "s">> >>,
    << <<"C", "a", "r", "g", "o", " ", "I", "n", "s", "u", "r", "a", "n", "c", "e", " ", "C", "o", "s", "t", "s">>,
       <<"c", "a", "r", "g", "o", "_", "i", "n", "s", "u", "r", "a", "n", "c", "e", "_", "c", "o", "s", "t", "s">> >>,
    << <<"A", "c", "c", "r", "u", "e", "d", " ", "I", "n", "t", "e", "r", "e", "s", "t", "s">>,
       <<"a", "c", "c", "r", "u", "e", "d", "_", "i", "n", "t", "e", "r", "e", "s", "t", "s">> >>,
    << <<"C", "o", "s", "t", " ", "o", "f", " ", "F", "u", "n", "d", "s", " ", "(", "A", "c", "c", "r", "u", "e", "d", ")">>,
       <<"c", "o", "s", "t", "_", "o", "f", "_", "f", "u", "n", "d", "s", "_", "a", "c", "c", "r", "u", "e", "d">> >>,
    << <<"D", "o", "c", "s", " ", "M", "a", "n", "a", "g", "e", "m", "e", "n", "t", " ", "F", "e", "e", "s">>,
       <<"d", "o", "c", "s", "_", "m", "a", "n", "a", "g", "e", "m", "e", "n", "t", "_", "f", "e", "e", "s">> >>,
    << <<"C", "o", "s", "t", "s", " ", "o", "f", " ", "D", "o", "c", "s", " ", "D", "e", "l", "i", "v", "e", "r", "y">>,
       <<"c", "o", "s", "t", "s", "_", "d", "o", "c", "s", "_", "d", "e", "l", "i", "v", "e", "r", "y">> >>,
    << <<"H", "a", "n", "d", "l", "i", "n", "g", " ", "&", " ", "W", "a", "r", "e", "h", "o", "u", "s", "e", " ", "D", "e", "s", "t", "i", "n", "a", "t", "i", "o", "n", " ", "F", "e", "e", "s">>,
       <<"h", "a", "n", "d", "l", "i", "n", "g", "_", "w", "a", "r", "e", "h", "o", "u", "s", "e", "_", "f", "e", "e", "s">> >>,
    << <<"H", "a", "n", "d", "l", "i", "n", "g", " ", "&", " ", "W", "a", "r", "e", "h", "o", "u", "s", "e", " ", "D", "e", "s", "t", "i", "n", "a", "t", "i", "o", "n", " ", "C", "o", "s", "t", "s">>,
       <<"h", "a", "n", "d", "l", "i", "n", "g", "_", "w", "a", "r", "e", "h", "o", "u", "s", "e", "_", "c", "o", "s", "t", "s">> >>,
    << <<"A", "v", "g", " ", "P", "o", "r", "t", "f", "o", "l", "i", "o", " ", "O", "u", "t", "s", "t", "a", "n", "d", "i", "n", "g">>,
       <<"a", "v", "g", "_", "p", "o", "r", "t", "f", "o", "l", "i", "o", "_", "o", "u", "t", "s", "t", "a", "n", "d", "i", "n", "g">> >>,
    << <<"C", "a", "s", "h", " ", "D", "r", "a", "g">>,
       <<"c", "a", "s", "h", "_", "d", "r", "a", "g">> >>,
    << <<"U", "S", "D", " ", "t", "o", " ", "E", "U", "R", " ", "h", "i", "s", "t", "o", "r", "i", "c", "a", "l", " ", "R", "a", "t", "e", "s", " ", "(", "E", "o", "M", ")">>,
       <<"u", "s", "d", "_", "e", "u", "r", "_", "r", "a", "t", "e", "_", "e", "o", "m">> >> >>

\* the labels convert_to_eur converts
currency_metrics == {
    <<"G", "M", "V">>,
    <<"F", "u", "n", "d", "e", "d", " ", "A", "m", "o", "u", "n", "t">>,
    <<"A", "r", "r", "a", "n", "g", "e", "m", "e", "n", "t", " ", "F", "e", "e", "s">>,
    <<"L", "o", "g", "i", "s", "t", "i", "c", " ", "F", "e", "e", "s">>,
    <<"L", "o", "g", "i", "s", "t", "i", "c", " ", "C", "o", "s", "t", "s">>,
    <<"C", "a", "r", "g", "o", " ", "I", "n", "s", "u", "r", "a", "n", "c", "e", " ", "F", "e", "e", "s">>,
    <<"C", "a", "r", "g", "o", " ", "I", "n", "s", "u", "r", "a", "n", "c", "e", " ", "C", "o", "s", "t", "s">>,
    <<"A", "c", "c", "r", "u", "e", "d", " ", "I", "n", "t", "e", "r", "e", "s", "t", "s">>,
    <<"C", "o", "s", "t", " ", "o", "f", " ", "F", "u", "n", "d", "s", " ", "(", "A", "c", "c", "r", "u", "e", "d", ")">>,
    <<"D", "o", "c", "s", " ", "M", "a", "n", "a", "g", "e", "m", "e", "n", "t", " ", "F", "e", "e", "s">>,
    <<"C", "o", "s", "t", "s", " ", "o", "f", " ", "D", "o", "c", "s", " ", "D", "e", "l", "i", "v", "e", "r", "y">>,
    <<"W", "a", "r", "e", "h", "o", "u", "s", "e", " ", "D", "e", "s", "t", "i", "n", "a", "t", "i", "o", "n", " ", "F", "e", "e", "s">>,
    <<"W", "a", "r", "e", "h", "o", "u", "s", "e", " ", "D", "e", "s", "t", "i", "n", "a", "t", "i", "o", "n", " ", "C", "o", "s", "t", "s">>,
    <<"A", "v", "g", " ", "P", "o", "r", "t", "f", "o", "l", "i", "o", " ", "O", "u", "t", "s", "t", "a", "n", "d", "i", "n", "g">> }

\* the columns convert_usd_to_eur converts
usd_columns == <<
    <<"g", "m", "v">>,
    <<"f", "u", "n", "d", "e", "d", "_", "a", "m", "o", "u", "n", "t">>,
    <<"a", "c", "c", "r", "u", "e", "d", "_", "i", "n", "t", "e", "r", "e", "s", "t", "s">>,
    <<"a", "r", "r", "a", "n", "g", "e", "m", "e", "n", "t", "_", "f", "e", "e", "s">>,
    <<"a", "v", "g", "_", "p", "o", "r", "t", "f", "o", "l", "i", "o", "_", "o", "u", "t", "s", "t", "a", "n", "d", "i", "n", "g">>,
    <<"c", "a", "r", "g", "o", "_", "i", "n", "s", "u", "r", "a", "n", "c", "e", "_", "c", "o", "s", "t", "s">>,
    <<"c", "a", "r", "g", "o", "_", "i", "n", "s", "u", "r", "a", "n", "c", "e", "_", "f", "e", "e", "s">>,
    <<"c", "o", "s", "t", "_", "o", "f", "_", "f", "u", "n", "d", "s", "_", "a", "c", "c", "r", "u", "e", "d">>,
    <<"c", "o", "s", "t", "s", "_", "d", "o", "c", "s", "_", "d", "e", "l", "i", "v", "e", "r", "y">>,
    <<"d", "o", "c", "s", "_", "m", "a", "n", "a", "g", "e", "m", "e", "n", "t", "_", "f", "e", "e", "s">>,
    <<"h", "a", "n", "d", "l", "i", "n", "g", "_", "w", "a", "r", "e", "h", "o", "u", "s", "e", "_", "c", "o", "s", "t", "s">>,
    <<"h", "a", "n", "d", "l", "i", "n", "g", "_", "w", "a", "r", "e", "h", "o", "u", "s", "e", "_", "f", "e", "e", "s">>,
    <<"l", "o", "g", "i", "s", "t", "i", "c", "_", "c", "o", "s", "t", "s">>,
    <<"l", "o", "g", "i", "s", "t", "i", "c", "_", "f", "e", "e", "s">> >>

\* constants.CURRENCY_METRICS
CURRENCY_METRICS == {
    <<"G", "M", "V">>,
    <<"F", "u", "n", "d", "e", "d", " ", "A", "m", "o", "u", "n", "t">>,
    <<"A", "r", "r", "a", "n", "g", "e", "m", "e", "n", "t", " ", "F", "e", "e", "s">>,
    <<"L", "o", "g", "i", "s", "t", "i", "c", " ", "F", "e", "e", "s">>,
    <<"A", "c", "c", "r", "u", "e", "d", " ", "I", "n", "t", "e", "r", "e", "s", "t", "s">>,
    <<"A", "v", "g", " ", "P", "o", "r", "t", "f", "o", "l", "i", "o", " ", "O", "u", "t", "s", "t", "a", "n", "d", "i", "n", "g">>,
    <<"C", "a", "r", "g", "o", " ", "I", "n", "s", "u", "r", "a", "n", "c", "e", " ", "C", "o", "s", "t", "s">>,
    <<"C", "a", "r", "g", "o", " ", "I", "n", "s", "u", "r", "a", "n", "c", "e", " ", "F", "e", "e", "s">>,
    <<"C", "o", "s", "t", " ", "o", "f", " ", "F", "u", "n", "d", "s", " ", "A", "c", "c", "r", "u", "e", "d">>,
    <<"C", "o", "s", "t", "s", " ", "D", "o", "c", "s", " ", "D", "e", "l", "i", "v", "e", "r", "y">>,
    <<"D", "o", "c", "s", " ", "M", "a", "n", "a", "g", "e", "m", "e", "n", "t", " ", "F", "e", "e", "s">>,
    <<"H", "a", "n", "d", "l", "i", "n", "g", " ", "W", "a", "r", "e", "h", "o", "u", "s", "e", " ", "C", "o", "s", "t", "s">>,
    <<"H", "a", "n", "d", "l", "i", "n", "g", " ", "W", "a", "r", "e", "h", "o", "u", "s", "e", " ", "F", "e", "e", "s">>,
    <<"L", "o", "g", "i", "s", "t", "i", "c", " ", "C", "o", "s", "t", "s">>,
    <<"C", "a", "s", "h", " ", "D", "r", "a", "g">> }

\* the keywords that mark the exchange-rate row
EXCHANGE_RATE_KEYWORDS == {
    <<"e", "x", "c", "h">>,
    <<"r", "a", "t", "e">>,
    <<"e", "u", "r">>,
    <<"u", "s", "d">> }

required_columns == <<
    <<"m", "o", "n", "t", "h">>,
    <<"g", "m", "v">>,
    <<"f", "u", "n", "d", "e", "d", "_", "a", "m", "o", "u", "n", "t">>,
    <<"a", "v", "g", "_", "d", "a", "y", "s", "_", "o", "u", "t", "s", "t", "a", "n", "d", "i", "n", "g">>,
    <<"n", "u", "m", "_", "i", "n", "v", "o", "i", "c", "e", "s">>,
    <<"n", "u", "m", "_", "b", "o", "x", "e", "s">> >>

S_month == <<"m", "o", "n", "t", "h">>
S_usd_eur_rate_eom == <<"u", "s", "d", "_", "e", "u", "r", "_", "r", "a", "t", "e", "_", "e", "o", "m">>

(***************************************************************************)
(* Cells and tables.  A cell is missing (NaN, pd.NA, None), a number or a  *)
(* string.  A DataFrame is its column names and its rows, each row one     *)
(* cell per column.                                                        *)
(***************************************************************************)
NA == [t |-> "na"]
Num(d) == [t |-> "num", v |-> d]
Str(s) == [t |-> "str", v |-> s]

\* pd.isna / pd.notna
isna(c) == c.t = "na"
notna(c) == c.t # "na"

\* (the rows are kept as tuples of tuples)
DataFrame(cols, rws) ==
    [columns |-> cols \o <<>>,
     rows |-> [i \in 1..Len(rws) |-> rws[i] \o <<>>] \o <<>>]

EmptyFrame == DataFrame(<<>>, <<>>)

\* the position of the column named `name` (0 when the table has none)
ColIndex(df, name) == IndexOf(name, df.columns)

\* float(s) / pd.to_numeric(s) of a string: [sign] digits [. digits], blanks
\* around it ignored; anything else is no number
ParseNumber(s) ==
    LET t == Strip(s)
        signed == t # <<>> /\ t[1] \in {"-", "+"}
        body == IF signed THEN Tail(t) ELSE t
        dots == {i \in 1..Len(body) : body[i] = "."}
        ok == /\ Cardinality(dots) <= 1
              /\ \A i \in 1..Len(body) : IsDigit(body[i]) \/ body[i] = "."
              /\ \E i \in 1..Len(body) : IsDigit(body[i])
        e == IF dots = {} THEN 0 ELSE Len(body) - (CHOOSE i \in dots : TRUE)
        m == DigitsVal(SelectSeq(body, IsDigit))
    IN IF ~ok THEN NA
       ELSE Num(Dec(IF signed /\ t[1] = "-" THEN 0 - m ELSE m, e))

\* pd.to_numeric(x, errors='coerce') of one cell
to_numeric(c) == IF c.t = "str" THEN ParseNumber(c.v) ELSE c

\* str(x) of a cell, as far as the label tests read it
StrOf(c) == IF c.t = "str" THEN c.v ELSE <<"n", "a", "n">>

(***************************************************************************)
(* fetch_from_sheets.py                                                    *)
(***************************************************************************)
\* clean_and_process on one cell of a column other than 'month'
CleanCell(c) ==
    IF c.t # "str" \/ c.v = <<>> \/ c.v = <<"n", "a", "n">> THEN NA
    ELSE Str(Strip(RemoveChar(RemoveChar(RemoveChar(c.v, "$"), ","), "%")))

clean_and_process(df) ==
    LET mi == ColIndex(df, S_month) IN
    DataFrame(df.columns, [i \in 1..Len(df.rows) |->
        [c \in 1..Len(df.columns) |->
            IF c = mi THEN df.rows[i][c] ELSE CleanCell(df.rows[i][c])]])

\* the label of a row matches an exchange-rate keyword
IsRateLabel(c) ==
    \E k \in EXCHANGE_RATE_KEYWORDS : Contains(Lower(StrOf(c)), k)

\* ExchRateRow taking the first row of the table when no label matches
ExchRateRow_fallback(df) ==
    LET mi == ColIndex(df, S_month)
        found == {i \in 1..Len(df.rows) : IsRateLabel(df.rows[i][mi])}
    IN IF found = {} THEN (IF df.rows = <<>> THEN 0 ELSE 1)
       ELSE CHOOSE i \in found : \A j \in found : i <= j

\* the index of the exchange-rate row: the first row whose label matches (0: none)
ExchRateRow(df) ==
    LET mi == ColIndex(df, S_month)
        found == {i \in 1..Len(df.rows) : IsRateLabel(df.rows[i][mi])}
    IN IF found = {} THEN 0 ELSE CHOOSE i \in found : \A j \in found : i <= j

\* the converted value of one cell of a currency metric
ConvertCell(cell, rate_cell) ==
    LET amount == to_numeric(cell)
        rate == to_numeric(rate_cell)
    IN IF notna(amount) /\ notna(rate) /\ ~IsZero(rate.v)
       THEN Num(Mul(amount.v, rate.v))
       ELSE cell

\* convert_to_eur reading the rate of the first period for every period
convert_to_eur_first_rate(df) ==
    LET mi == ColIndex(df, S_month)
        x == ExchRateRow(df)
        first == CHOOSE c \in 1..Len(df.columns) : c # mi /\ \A d \in 1..(c - 1) : d = mi
        converted ==
            DataFrame(df.columns, [i \in 1..Len(df.rows) |->
                [c \in 1..Len(df.columns) |->
                    IF c # mi /\ df.rows[i][mi].t = "str" /\ df.rows[i][mi].v \in currency_metrics
                    THEN ConvertCell(df.rows[i][c], df.rows[x][first])
                    ELSE df.rows[i][c]]])
    IN IF x = 0 THEN [ret |-> df, arg |-> df]
       ELSE [ret |-> converted, arg |-> df]

\* convert_to_eur without the `metric in currency_metrics` test
convert_to_eur_all_rows(df) ==
    LET mi == ColIndex(df, S_month)
        x == ExchRateRow(df)
        converted ==
            DataFrame(df.columns, [i \in 1..Len(df.rows) |->
                [c \in 1..Len(df.columns) |->
                    IF c # mi
                    THEN ConvertCell(df.rows[i][c], df.rows[x][c])
                    ELSE df.rows[i][c]]])
    IN IF x = 0 THEN [ret |-> df, arg |-> df]
       ELSE [ret |-> converted, arg |-> df]

\* convert_to_eur: ret is the table returned, arg the caller's table after the call
convert_to_eur(df) ==
    LET mi == ColIndex(df, S_month)
        x == ExchRateRow(df)
        converted ==
            DataFrame(df.columns, [i \in 1..Len(df.rows) |->
                [c \in 1..Len(df.columns) |->
                    IF c # mi /\ df.rows[i][mi].t = "str" /\ df.rows[i][mi].v \in currency_metrics
                    THEN ConvertCell(df.rows[i][c], df.rows[x][c])
                    ELSE df.rows[i][c]]])
    IN IF x = 0 THEN [ret |-> df, arg |-> df]
       ELSE [ret |-> converted, arg |-> df]

(***************************************************************************)
(* The input files of the pipeline.  A file is named by what pd.read_csv   *)
(* and the later stages find in it.                                        *)
(***************************************************************************)
Files == {"nonexistent.csv", "kpi_data.csv", "no_month.csv", "no_boxes.csv",
          "no_gmv.csv", "inf_invoices.csv"}

\* Path(file_path).exists()
Exists(f) == f # "nonexistent.csv"

\* the table has a 'month' column (clean_data indexes df['month'])
HasMonth(f) == f # "no_month.csv"

\* the table has the base columns calculate_metrics indexes
HasBaseColumns(f) == f # "no_boxes.csv"

\* some row has a gmv value
HasValidGmv(f) == f # "no_gmv.csv"

\* num_invoices sums to a finite number (int() of an infinite sum raises)
FiniteInvoices(f) == f # "inf_invoices.csv"

Ok(v) == [exc |-> "none", val |-> v]
Raise(e) == [exc |-> e, val |-> None]

(***************************************************************************)
(* KPIPipeline: the stages as functions of the object's fields             *)
(***************************************************************************)
\* load_data: the new value of self.raw_data, or the exception raised
load_data(src, raw, f, gen) ==
    IF src = "csv"
    THEN IF ~Exists(f)
         THEN Raise("FileNotFoundError")
         ELSE Ok([file |-> f, gen |-> gen])
    ELSE Ok(raw)

clean_data(raw) ==
    IF raw = None THEN Raise("ValueError")
    ELSE IF ~HasMonth(raw.file) THEN Raise("KeyError")
    ELSE Ok(raw)

calculate_metrics(df) ==
    IF ~HasBaseColumns(df.file) THEN Raise("KeyError") ELSE Ok(df)

\* transform_data: the new value of self.transformed_data, or the exception
transform_data(raw) ==
    LET df_clean == clean_data(raw) IN
    IF df_clean.exc # "none" THEN df_clean
    ELSE calculate_metrics(df_clean.val)

generate_summary_stats_unguarded(td) ==
    IF td = None THEN Ok([of |-> None, error |-> TRUE])
    ELSE IF ~HasValidGmv(td.file) THEN Ok([of |-> td, error |-> TRUE])
    ELSE IF ~FiniteInvoices(td.file) THEN Raise("OverflowError")
    ELSE Ok([of |-> td, error |-> FALSE])

generate_summary_stats(td) ==
    IF td = None THEN Raise("ValueError")
    ELSE IF ~HasValidGmv(td.file) THEN Ok([of |-> td, error |-> TRUE])
    ELSE IF ~FiniteInvoices(td.file) THEN Raise("OverflowError")
    ELSE Ok([of |-> td, error |-> FALSE])

\* export_for_dashboard: the new content of output_dir, or the exception
export_for_dashboard_unguarded(td, dir_exists) ==
    LET summary == generate_summary_stats_unguarded(td) IN
    IF summary.exc # "none" THEN summary
    ELSE IF ~dir_exists THEN Raise("FileNotFoundError")
    ELSE Ok([json |-> [data |-> td, summary |-> summary.val], csv |-> td])

export_for_dashboard(td, dir_exists) ==
    IF td = None THEN Raise("ValueError")
    ELSE LET summary == generate_summary_stats(td) IN
         IF summary.exc # "none" THEN summary
         ELSE IF ~dir_exists THEN Raise("FileNotFoundError")
         ELSE Ok([json |-> [data |-> td, summary |-> summary.val], csv |-> td])

NoFiles == [json |-> None, csv |-> None]

NoRun == [log |-> <<>>, file |-> None, exc |-> "none", disk0 |-> NoFiles]

(***************************************************************************)
(* KPIPipeline: direct calls of the public methods                         *)
(***************************************************************************)
CanCall == pc = "idle" /\ ncalls < MaxCalls

Called(op, r) == [op |-> op, outcome |-> r.exc, n |-> ncalls + 1]

LoadData(f) ==
    /\ CanCall
    /\ LET r == load_data(data_source, raw_data, f, ncalls + 1) IN
        /\ raw_data' = IF r.exc = "none" THEN r.val ELSE raw_data
        /\ last' = Called("load_data", r)
    /\ ncalls' = ncalls + 1
    /\ UNCHANGED <<data_source, transformed_data, disk, out_dir, pc, run, fvars, kvars, uvars, wvars>>

TransformData ==
    /\ CanCall
    /\ LET r == transform_data(raw_data) IN
        /\ transformed_data' = IF r.exc = "none" THEN r.val ELSE transformed_data
        /\ last' = Called("transform_data", r)
    /\ ncalls' = ncalls + 1
    /\ UNCHANGED <<data_source, raw_data, disk, out_dir, pc, run, fvars, kvars, uvars, wvars>>

GenerateSummaryStats ==
    /\ CanCall
    /\ LET r == generate_summary_stats(transformed_data) IN
        last' = [op |-> "generate_summary_stats", outcome |-> r.exc, n |-> ncalls + 1,
                 summary |-> r.val]
    /\ ncalls' = ncalls + 1
    /\ UNCHANGED <<data_source, raw_data, transformed_data, disk, out_dir, pc, run, fvars, kvars, uvars, wvars>>

ExportForDashboard ==
    /\ CanCall
    /\ LET r == export_for_dashboard(transformed_data, out_dir) IN
        /\ disk' = IF r.exc = "none" THEN r.val ELSE disk
        /\ last' = Called("export_for_dashboard", r)
    /\ ncalls' = ncalls + 1
    /\ UNCHANGED <<data_source, raw_data, transformed_data, out_dir, pc, run, fvars, kvars, uvars, wvars>>

(***************************************************************************)
(* KPIPipeline.run_pipeline, one step per stage                            *)
(***************************************************************************)
\* the stages in the order run_pipeline calls them
Stages == <<"load", "transform", "summarize", "export">>

\* a stage outcome that is ignored: the run goes on whatever happened
After_swallow(r, next) == next

\* what a stage's outcome does to the position of the run: an exception leaves
\* the try block for the except clause
After(r, next) == IF r.exc = "none" THEN next ELSE "except"

RunPipeline(f) ==
    /\ CanCall
    /\ pc' = "load"
    /\ run' = [log |-> <<>>, file |-> f, exc |-> "none", disk0 |-> disk]
    /\ ncalls' = ncalls + 1
    /\ UNCHANGED <<data_source, raw_data, transformed_data, disk, out_dir, last, fvars, kvars, uvars, wvars>>

RunLoad ==
    /\ pc = "load"
    /\ LET r == load_data(data_source, raw_data, run.file, ncalls) IN
        /\ raw_data' = IF r.exc = "none" THEN r.val ELSE raw_data
        /\ pc' = After(r, "transform")
        /\ run' = [run EXCEPT !.log = Append(@, "load"), !.exc = r.exc]
    /\ UNCHANGED <<data_source, transformed_data, disk, out_dir, last, ncalls, fvars, kvars, uvars, wvars>>

RunTransform ==
    /\ pc = "transform"
    /\ LET r == transform_data(raw_data) IN
        /\ transformed_data' = IF r.exc = "none" THEN r.val ELSE transformed_data
        /\ pc' = After(r, "summarize")
        /\ run' = [run EXCEPT !.log = Append(@, "transform"), !.exc = r.exc]
    /\ UNCHANGED <<data_source, raw_data, disk, out_dir, last, ncalls, fvars, kvars, uvars, wvars>>

RunSummarize ==
    /\ pc = "summarize"
    /\ LET r == generate_summary_stats(transformed_data) IN
        /\ pc' = After(r, "export")
        /\ run' = [run EXCEPT !.log = Append(@, "summarize"), !.exc = r.exc]
    /\ UNCHANGED <<data_source, raw_data, transformed_data, disk, out_dir, last, ncalls, fvars, kvars, uvars, wvars>>

RunExport ==
    /\ pc = "export"
    /\ LET r == export_for_dashboard(transformed_data, out_dir) IN
        /\ disk' = IF r.exc = "none" THEN r.val ELSE disk
        /\ pc' = After(r, "return")
        /\ run' = [run EXCEPT !.log = Append(@, "export"), !.exc = r.exc]
    /\ UNCHANGED <<data_source, raw_data, transformed_data, out_dir, last, ncalls, fvars, kvars, uvars, wvars>>

\* `return output_file`
RunReturn ==
    /\ pc = "return"
    /\ pc' = "idle"
    /\ last' = [op |-> "run_pipeline", outcome |-> "none", n |-> ncalls, log |-> run.log]
    /\ UNCHANGED <<data_source, raw_data, transformed_data, disk, out_dir, run, ncalls, fvars, kvars, uvars, wvars>>

\* `except Exception as e: logger.error(...); raise`
RunExcept ==
    /\ pc = "except"
    /\ pc' = "idle"
    /\ last' = [op |-> "run_pipeline", outcome |-> run.exc, n |-> ncalls, log |-> run.log]
    /\ UNCHANGED <<data_source, raw_data, transformed_data, disk, out_dir, run, ncalls, fvars, kvars, uvars, wvars>>

(***************************************************************************)
(* convert_kpis_wide_to_long.py                                            *)
(***************************************************************************)
\* x / 100
Div100(d) == Norm(d.m, d.e + 2)

\* the decimal digits of a natural number
RECURSIVE NatToStr(_)
NatToStr(n) == IF n < 10 THEN <<Digits[n + 1]>>
               ELSE NatToStr(n \div 10) \o <<Digits[(n % 10) + 1]>>

\* 10^e
RECURSIVE Pow10(_)
Pow10(e) == IF e = 0 THEN 1 ELSE 10 * Pow10(e - 1)

\* the digits s, zero-padded on the left to the width w
RECURSIVE PadLeft(_, _)
PadLeft(s, w) == IF Len(s) >= w THEN s ELSE PadLeft(<<"0">> \o s, w)

\* str(x) of a float: the integer part, a point, the decimals ('1000.0', '0.92')
FormatFloat(d) ==
    LET a == IF d.m < 0 THEN 0 - d.m ELSE d.m
        sign == IF d.m < 0 THEN <<"-">> ELSE <<>>
        whole == NatToStr(a \div Pow10(d.e))
        frac == IF d.e = 0 THEN <<"0">> ELSE PadLeft(NatToStr(a % Pow10(d.e)), d.e)
    IN sign \o whole \o <<".">> \o frac

\* str(value) of a cell that is not missing
CellStr(c) == IF c.t = "num" THEN FormatFloat(c.v) ELSE c.v

\* re.sub(r'[$,\s]', '', s)
StripCurrency(s) ==
    LET keep(x) == x \notin {"$", ","} /\ ~IsSpace(x) IN SelectSeq(s, keep)

\* float('inf'), float('-inf'): a float that is not finite
Inf(sign) == [t |-> "inf", v |-> sign]

\* float(s) of a string: the float, or ValueError.  Besides decimal numerals
\* Python reads 'inf', 'infinity' and 'nan' in any case, with a sign.
float(s) ==
    LET t == Lower(Strip(s))
        signed == t # <<>> /\ t[1] \in {"-", "+"}
        body == IF signed THEN Tail(t) ELSE t
        x == ParseNumber(s)
    IN IF body \in {<<"i", "n", "f">>, <<"i", "n", "f", "i", "n", "i", "t", "y">>}
       THEN Ok(Inf(IF signed /\ t[1] = "-" THEN 0 - 1 ELSE 1))
       ELSE IF body = <<"n", "a", "n">> THEN Ok(NA)
       ELSE IF isna(x) THEN Raise("ValueError")
       ELSE Ok(x)

\* try: return <r>  except ValueError: return np.nan
ExceptValueError(r) == IF r.exc = "ValueError" THEN Ok(NA) ELSE r

\* '-' + value_str[1:-1] when value_str is in parentheses
Unparenthesised(value_str) ==
    IF StartsWith(value_str, <<"(">>) /\ EndsWith(value_str, <<")">>)
    THEN <<"-">> \o SubSeq(value_str, 2, Len(value_str) - 1)
    ELSE value_str

\* float(value_str[:-1]) / 100 of a percentage, float(value_str) otherwise;
\* inf and nan divided by 100 are inf and nan
ToFloat(value_str) ==
    CHOOSE r \in
        {IF EndsWith(value_str, <<"%">>) /\ f.exc = "none" /\ f.val.t = "num"
         THEN Ok(Num(Div100(f.val.v)))
         ELSE f :
            f \in {float(IF EndsWith(value_str, <<"%">>)
                         THEN SubSeq(value_str, 1, Len(value_str) - 1)
                         ELSE value_str)}} : TRUE

\* clean_currency_value with both conversions outside their try blocks
clean_currency_value_uncaught(value) ==
    IF isna(value) \/ (value.t = "str" /\ value.v = <<>>) THEN Ok(NA)
    ELSE CHOOSE r \in
            {ToFloat(value_str) :
                value_str \in {Unparenthesised(StripCurrency(Strip(CellStr(value))))}} : TRUE

\* a call of clean_currency_value: the float returned, or the exception raised
clean_currency_value_call(value) ==
    IF isna(value) \/ (value.t = "str" /\ value.v = <<>>) THEN Ok(NA)
    ELSE CHOOSE r \in
            {ExceptValueError(ToFloat(value_str)) :
                value_str \in {Unparenthesised(StripCurrency(Strip(CellStr(value))))}} : TRUE

\* the float clean_currency_value returns
clean_currency_value(value) == clean_currency_value_call(value).val

\* the key of a label of the known-label table (<<>> when it has none)
MappedKey(name) ==
    IF \E i \in 1..Len(metric_mapping) : metric_mapping[i][1] = name
    THEN metric_mapping[CHOOSE i \in 1..Len(metric_mapping) : metric_mapping[i][1] = name][2]
    ELSE <<>>

\* metric_name.lower().replace(' ', '_').replace('#', 'num')
FallbackKey(name) == ReplaceChar(ReplaceChar(Lower(name), " ", <<"_">>), "#", <<"n", "u", "m">>)

standardize_metric_name(metric_name) ==
    IF MappedKey(metric_name) # <<>> THEN MappedKey(metric_name) ELSE FallbackKey(metric_name)

\* ---- the month headers as dates ----
\* a date is the number yyyymmdd; NaT is no date
NaT == 0 - 1
DateKey(y, m, d) == y * 10000 + m * 100 + d

IsLeap(y) == (y % 4 = 0 /\ y % 100 # 0) \/ y % 400 = 0
DaysInMonth(y, m) ==
    IF m = 2 THEN (IF IsLeap(y) THEN 29 ELSE 28)
    ELSE IF m \in {4, 6, 9, 11} THEN 30 ELSE 31

AllDigits(s) == s # <<>> /\ \A i \in 1..Len(s) : IsDigit(s[i])

\* a date from month, day and year digits; the year is yoff + the digits read
DateOf(ms, ds, ys, ylen, yoff) ==
    IF /\ AllDigits(ms) /\ Len(ms) <= 2
       /\ AllDigits(ds) /\ Len(ds) <= 2
       /\ AllDigits(ys) /\ Len(ys) = ylen
    THEN LET m == DigitsVal(ms)
             d == DigitsVal(ds)
             y == yoff + DigitsVal(ys)
         IN IF m \in 1..12 /\ d >= 1 /\ d <= DaysInMonth(y, m) THEN DateKey(y, m, d) ELSE NaT
    ELSE NaT

\* the three fields of 'a/b/c' (<<>> when s is not of that form)
SlashFields(s) ==
    LET cuts == {i \in 1..Len(s) : s[i] = "/"} IN
    IF Cardinality(cuts) # 2 THEN <<>>
    ELSE LET p == CHOOSE i \in cuts : \A j \in cuts : i <= j
             q == CHOOSE i \in cuts : \A j \in cuts : j <= i
         IN <<SubSeq(s, 1, p - 1), SubSeq(s, p + 1, q - 1), SubSeq(s, q + 1, Len(s))>>

\* pd.to_datetime(s, format='%m/%d/%Y', errors='coerce')
ParseMDY(s) ==
    LET f == SlashFields(s) IN
    IF f = <<>> THEN NaT ELSE DateOf(f[1], f[2], f[3], 4, 0)

MonthNames == <<
    <<"j", "a", "n", "u", "a", "r", "y">>,
    <<"f", "e", "b", "r", "u", "a", "r", "y">>,
    <<"m", "a", "r", "c", "h">>,
    <<"a", "p", "r", "i", "l">>,
    <<"m", "a", "y">>,
    <<"j", "u", "n", "e">>,
    <<"j", "u", "l", "y">>,
    <<"a", "u", "g", "u", "s", "t">>,
    <<"s", "e", "p", "t", "e", "m", "b", "e", "r">>,
    <<"o", "c", "t", "o", "b", "e", "r">>,
    <<"n", "o", "v", "e", "m", "b", "e", "r">>,
    <<"d", "e", "c", "e", "m", "b", "e", "r">> >>

\* the number of the month named s, whatever its case (0: no month name)
MonthNumber(s) == IndexOf(Lower(s), MonthNames)

\* pd.to_datetime(s, format='%B', errors='coerce'): the year defaults to 1900
ParseMonthName(s) ==
    IF MonthNumber(s) = 0 THEN NaT ELSE DateKey(1900, MonthNumber(s), 1)

\* pd.to_datetime(s, format='%B %Y', errors='coerce')
ParseMonthNameYear(s) ==
    LET gaps == {i \in 1..Len(s) : s[i] = " "} IN
    IF gaps = {} THEN NaT
    ELSE LET p == CHOOSE i \in gaps : \A j \in gaps : i <= j
             name == SubSeq(s, 1, p - 1)
             ys == Strip(SubSeq(s, p + 1, Len(s)))
         IN IF MonthNumber(name) # 0 /\ AllDigits(ys) /\ Len(ys) = 4
            THEN DateKey(DigitsVal(ys), MonthNumber(name), 1)
            ELSE NaT

\* pd.Timestamp.now().year
current_year == 2026

\* the month_date column of the long table: the first format that parses any
\* of the months is the one applied to all of them
MonthDates(months) ==
    LET n == Len(months)
        mdy == [i \in 1..n |-> ParseMDY(months[i])] \o <<>>
        name == [i \in 1..n |-> ParseMonthName(months[i])] \o <<>>
        named == [i \in 1..n |->
                    ParseMonthNameYear(months[i] \o <<" ">> \o NatToStr(current_year))] \o <<>>
    IN IF \E i \in 1..n : mdy[i] # NaT THEN mdy
       ELSE IF \E i \in 1..n : name[i] # NaT THEN name
       ELSE named

\* sort_values(['month_date', 'metric']): dates ascending, NaT last
ByDateThenMetric(a, b) ==
    \/ a.month_date # NaT /\ (b.month_date = NaT \/ a.month_date < b.month_date)
    \/ a.month_date = b.month_date /\ StrLess(a.metric, b.metric)

\* sort_values(['month', 'metric'])
ByMonthThenMetric(a, b) ==
    \/ StrLess(a.month, b.month)
    \/ a.month = b.month /\ StrLess(a.metric, b.metric)

\* the elements of a sequence, as a set
Range(s) == {s[i] : i \in 1..Len(s)}

\* the numbers of S in ascending order
Ascending(S, n) == LET member(i) == i \in S IN SelectSeq([i \in 1..n |-> i], member)

\* convert_wide_to_long: the long table (a sequence of records), or the
\* exception raised.  The first column of the csv holds the metric labels.
convert_wide_to_long(w) ==
    LET nrows == Len(w.rows)
        ncols == Len(w.columns)
        \* df.dropna(how='all').loc[:, df.notna().any()]
        keptRows == Ascending({i \in 1..nrows : \E c \in 2..ncols : notna(w.rows[i][c])}, nrows)
        keptCols == Ascending({c \in 2..ncols : \E i \in 1..nrows : notna(w.rows[i][c])}, ncols)
        label(i) == w.rows[i][1]
        named(i) == notna(label(i)) /\ Strip(label(i).v) # <<>>
        \* df.loc[metric_name, month_col] is one cell only when the label is unique
        ambiguous == \E k \in 1..Len(keptRows) : \E j \in 1..Len(keptRows) :
                        /\ named(keptRows[k])
                        /\ j # k
                        /\ label(keptRows[j]) = label(keptRows[k])
        R == Len(keptRows)
        C == Len(keptCols)
        cells == [k \in 1..(R * C) |->
                    <<keptRows[((k - 1) \div C) + 1], keptCols[((k - 1) % C) + 1]>>] \o <<>>
        valid(p) ==
            LET value == w.rows[p[1]][p[2]] IN
            /\ named(p[1])
            /\ notna(value)
            /\ Strip(CellStr(value)) # <<>>
            /\ notna(clean_currency_value(value))
        used == SelectSeq(cells, valid)
        months == [k \in 1..Len(used) |-> w.columns[used[k][2]]] \o <<>>
        dates == MonthDates(months)
        long_data == [k \in 1..Len(used) |->
                        [month |-> months[k],
                         metric |-> standardize_metric_name(Strip(label(used[k][1]).v)),
                         value |-> clean_currency_value(w.rows[used[k][1]][used[k][2]]),
                         original_metric |-> label(used[k][1]).v,
                         month_date |-> dates[k]]] \o <<>>
    IN IF ambiguous THEN Raise("ValueError")
       ELSE IF used = <<>> THEN Raise("ValueError")
       ELSE IF \E k \in 1..Len(dates) : dates[k] # NaT
            THEN Ok(SortBy(long_data, ByDateThenMetric))
            ELSE Ok(SortBy(long_data, ByMonthThenMetric))

\* float multiplication of two cells of float columns: NaN spreads
MulCell(a, b) == IF a.t = "num" /\ b.t = "num" THEN Num(Mul(a.v, b.v)) ELSE NA

\* convert_usd_to_eur: ret is the table returned, arg the caller's table after
\* the call; the columns are overwritten in the table given
convert_usd_to_eur(dfp) ==
    LET ri == ColIndex(dfp, S_usd_eur_rate_eom)
        converted ==
            DataFrame(dfp.columns, [i \in 1..Len(dfp.rows) |->
                [c \in 1..Len(dfp.columns) |->
                    IF dfp.columns[c] \in Range(usd_columns)
                    THEN MulCell(dfp.rows[i][c], dfp.rows[i][ri])
                    ELSE dfp.rows[i][c]]])
    IN IF ri = 0 THEN [ret |-> dfp, arg |-> dfp]
       ELSE [ret |-> converted, arg |-> converted]

\* df[names]
SelectColumns(df, names) ==
    DataFrame(names, [i \in 1..Len(df.rows) |->
                        [j \in 1..Len(names) |-> df.rows[i][ColIndex(df, names[j])]]])

\* df_long.pivot(index='month', columns='metric', values='value').reset_index()
Pivot(dl) ==
    LET n == Len(dl)
        months == SortSet({dl[i].month : i \in 1..n}, StrLess)
        keys == SortSet({dl[i].metric : i \in 1..n}, StrLess)
        at(mo, k) == {i \in 1..n : dl[i].month = mo /\ dl[i].metric = k}
        val(mo, k) == IF at(mo, k) = {} THEN NA ELSE dl[CHOOSE i \in at(mo, k) : TRUE].value
    IN DataFrame(<<S_month>> \o keys,
                 [i \in 1..Len(months) |->
                    <<Str(months[i])>> \o [j \in 1..Len(keys) |-> val(months[i], keys[j])]])

\* create_pipeline_compatible_format without the reordering of the columns
create_pipeline_compatible_format_unordered(dl, cc) ==
    LET n == Len(dl)
        duplicate == \E i \in 1..n : \E j \in 1..n :
                        /\ i # j
                        /\ dl[i].month = dl[j].month
                        /\ dl[i].metric = dl[j].metric
        pivot == Pivot(dl)
        absent(col) == ColIndex(pivot, col) = 0
        missing == SelectSeq(required_columns, absent)
        filled == DataFrame(pivot.columns \o missing,
                            [i \in 1..Len(pivot.rows) |->
                                pivot.rows[i] \o [j \in 1..Len(missing) |-> NA]])
        dfp == IF cc THEN convert_usd_to_eur(filled).ret ELSE filled
    IN IF duplicate THEN Raise("ValueError")
       ELSE Ok(dfp)

\* create_pipeline_compatible_format: the table returned, or the exception
create_pipeline_compatible_format(dl, cc) ==
    LET n == Len(dl)
        duplicate == \E i \in 1..n : \E j \in 1..n :
                        /\ i # j
                        /\ dl[i].month = dl[j].month
                        /\ dl[i].metric = dl[j].metric
        pivot == Pivot(dl)
        absent(col) == ColIndex(pivot, col) = 0
        missing == SelectSeq(required_columns, absent)
        filled == DataFrame(pivot.columns \o missing,
                            [i \in 1..Len(pivot.rows) |->
                                pivot.rows[i] \o [j \in 1..Len(missing) |-> NA]])
        dfp == IF cc THEN convert_usd_to_eur(filled).ret ELSE filled
        present(col) == ColIndex(dfp, col) # 0
        other(col) == col \notin Range(required_columns)
        order == SelectSeq(required_columns, present) \o SelectSeq(dfp.columns, other)
    IN IF duplicate THEN Raise("ValueError")
       ELSE Ok(SelectColumns(dfp, order))

(***************************************************************************)
(* fetch_from_sheets.main: fetch, clean, convert                           *)
(***************************************************************************)
FetchOff ==
    /\ sheet = EmptyFrame
    /\ df_usd = EmptyFrame
    /\ df_eur = EmptyFrame
    /\ fpc = "off"

\* no single function call is being made
CallsOff ==
    /\ arg = None
    /\ res = None
    /\ upc = "off"

PipelineOff ==
    /\ data_source = "csv"
    /\ raw_data = None
    /\ transformed_data = None
    /\ disk = NoFiles
    /\ out_dir = FALSE
    /\ pc = "off"
    /\ run = NoRun
    /\ last = [op |-> "__init__", outcome |-> "none", n |-> 0]
    /\ ncalls = 0

(***************************************************************************)
(* The API: the users table, the clock, tokens and responses               *)
(***************************************************************************)
\* scripts/constants.py
TOKEN_EXPIRY_HOURS == 24
MAX_LOGIN_ATTEMPTS == 5
ACCOUNT_LOCKOUT_MINUTES == 15

\* a DateTime column holding None
NoTime == 0 - 1

\* no token: no Authorization header, no cookie, none in the response
NoToken == [sig |-> "none", user_id |-> 0, email |-> "", role |-> "", exp |-> 0, iat |-> 0]

\* hash_password(password): the bcrypt hash, which only that password verifies
hash_password(password) == [bcrypt |-> password]

\* the users table before create_user has added the row
NoUser ==
    [id |-> 0, email |-> "", password_hash |-> hash_password(""), role |-> "",
     active |-> FALSE, failed_login_attempts |-> 0, locked_until |-> NoTime,
     last_login |-> NoTime]

\* the credentials a call was made with
Credentials(email, password, header, auth_token) ==
    [email |-> email, password |-> password, header |-> header, auth_token |-> auth_token]

NoCredentials == Credentials("", "", NoToken, NoToken)

\* a call and what it answers: the credentials it was given, the HTTP status
\* (0 for a service call), the exception raised, its message, the token handed
\* out, and the rows committed on the way
Response(op, given, status, exc, msg, token, commits) ==
    [op |-> op, given |-> given, status |-> status, exc |-> exc, msg |-> msg,
     token |-> token, commits |-> commits]

NoResp == Response("none", NoCredentials, 0, "none", "", NoToken, <<>>)

\* the database as init_db leaves it, before any request
AuthInit ==
    /\ user = NoUser
    /\ now = 0
    /\ nticks = 0
    /\ tokens = {}
    /\ loggedout = {}
    /\ cookie = NoToken
    /\ resp = NoResp
    /\ nreq = 0

\* no login request is in progress
LoginsOff == sessions = <<>>

\* no dashboard update is in progress, no output file written
NoFile == [run |-> 0, version |-> 0]

RunsOff ==
    /\ live_sheet = 0
    /\ runs = <<>>
    /\ csv_file = NoFile
    /\ json_file = NoFile

WebOff == AuthInit /\ LoginsOff /\ RunsOff

\* df_usd = clean_and_process(df)
CleanAndProcess ==
    /\ fpc = "fetched"
    /\ df_usd' = clean_and_process(sheet)
    /\ fpc' = "cleaned"
    /\ UNCHANGED <<sheet, df_eur, pvars, kvars, uvars, wvars>>

\* a converter call moves main on; a second call on the same table is the last
AfterConvert(p) == IF p = "cleaned" THEN "converted" ELSE "reconverted"

\* df_eur = convert_to_eur(df_usd.copy()): the converter is handed a copy
ConvertToEur ==
    /\ fpc \in {"cleaned", "converted"}
    /\ df_eur' = convert_to_eur(df_usd).ret
    /\ fpc' = AfterConvert(fpc)
    /\ UNCHANGED <<sheet, df_usd, pvars, kvars, uvars, wvars>>

\* result = convert_to_eur(df): the converter is handed the caller's table itself
ConvertToEurDirect ==
    /\ fpc \in {"cleaned", "converted"}
    /\ \E r \in {convert_to_eur(df_usd)} :
        /\ df_eur' = r.ret
        /\ df_usd' = r.arg
    /\ fpc' = AfterConvert(fpc)
    /\ UNCHANGED <<sheet, pvars, kvars, uvars, wvars>>

\* the period headers of the sheet
PeriodHeaders == << <<"J", "a", "n", "-", "2", "5">>, <<"F", "e", "b", "-", "2", "5">> >>

\* the sheet's first column holds the metric labels
SheetColumns == <<S_month>> \o PeriodHeaders

SheetLabels == {
    <<"G", "M", "V">>,
    <<"#", " ", "I", "n", "v", "o", "i", "c", "e", "s">>,
    <<"U", "S", "D", "/", "E", "U", "R", " ", "R", "a", "t", "e">>,
    <<"C", "a", "s", "h", " ", "D", "r", "a", "g">> }

\* the raw cells of a row, one per period
RowPatterns == {
    << <<"1", "0", "0", "0">>, <<"1", "1", "0", "0">> >>,
    << <<>>, <<"$", "1", ",", "0", "0", "0">> >>,
    << <<"0", ".", "9", "2">>, <<"0", ".", "9", "3">> >>,
    << <<>>, <<"0", ".", "9", "2">> >>,
    << <<"0">>, <<"0", ".", "5">> >>,
    << <<"5", "0">>, <<"1", "5", ".", "5", "%">> >> }

SheetRows == {<<Str(l)>> \o [i \in 1..Len(p) |-> Str(p[i])] : l \in SheetLabels, p \in RowPatterns}

\* the tables of at most n rows
RECURSIVE RowSeqs(_, _)
RowSeqs(R, n) ==
    IF n = 0 THEN {<<>>}
    ELSE LET shorter == RowSeqs(R, n - 1) IN
         shorter \cup {Append(s, r) : s \in {t \in shorter : Len(t) = n - 1}, r \in R}

\* the table of test_convert_to_eur_with_exchange_rate, with the GMV row of the
\* documented example
ExampleSheet ==
    DataFrame(SheetColumns,
              << <<Str(<<"G", "M", "V">>), Str(<<"1", "0", "0", "0", "0", "0", "0">>), Str(<<"1", "1", "0", "0", "0", "0", "0">>)>>,
                 <<Str(<<"F", "u", "n", "d", "e", "d", " ", "A", "m", "o", "u", "n", "t">>), Str(<<"9", "0", "0", "0", "0", "0">>), Str(<<"9", "5", "0", "0", "0", "0">>)>>,
                 <<Str(<<"U", "S", "D", "/", "E", "U", "R", " ", "R", "a", "t", "e">>), Str(<<"0", ".", "9", "2">>), Str(<<"0", ".", "9", "3">>)>> >>)

Sheets == {DataFrame(SheetColumns, rws) : rws \in RowSeqs(SheetRows, MaxRows)}
              \cup {ExampleSheet}

FetchInit ==
    /\ sheet \in Sheets
    /\ df_usd = EmptyFrame
    /\ df_eur = EmptyFrame
    /\ fpc = "fetched"

(***************************************************************************)
(* convert_kpis_wide_to_long.main: to long, to pipeline format             *)
(***************************************************************************)
KpisOff ==
    /\ wide = EmptyFrame
    /\ df_long = <<>>
    /\ df_pivot = EmptyFrame
    /\ df_conv = EmptyFrame
    /\ convert_currency = FALSE
    /\ kpc = "off"
    /\ kerr = "none"

\* df_long = convert_wide_to_long(args.input, args.output)
ConvertWideToLong ==
    /\ kpc = "csv"
    /\ \E r \in {convert_wide_to_long(wide)} :
        /\ df_long' = IF r.exc = "none" THEN r.val ELSE df_long
        /\ kpc' = IF r.exc = "none" THEN "long" ELSE "failed"
        /\ kerr' = r.exc
    /\ UNCHANGED <<wide, df_pivot, df_conv, convert_currency, pvars, fvars, uvars, wvars>>

\* create_pipeline_compatible_format(df_long, pipeline_output, convert_currency=cc)
CreatePipelineCompatibleFormat(cc) ==
    /\ kpc = "long"
    /\ \E r \in {create_pipeline_compatible_format(df_long, cc)} :
        /\ df_pivot' = IF r.exc = "none" THEN r.val ELSE df_pivot
        /\ kpc' = IF r.exc # "none" THEN "failed" ELSE IF cc THEN "converted" ELSE "pivot"
        /\ kerr' = r.exc
    /\ convert_currency' = cc
    /\ UNCHANGED <<wide, df_long, df_conv, pvars, fvars, uvars, wvars>>

\* df = convert_usd_to_eur(df_pivot), called on the caller's table
ConvertUsdToEur ==
    /\ kpc \in {"pivot", "converted"}
    /\ \E r \in {convert_usd_to_eur(df_pivot)} :
        /\ df_conv' = r.ret
        /\ df_pivot' = r.arg
    /\ kpc' = IF kpc = "pivot" THEN "converted" ELSE "reconverted"
    /\ UNCHANGED <<wide, df_long, convert_currency, kerr, pvars, fvars, uvars, wvars>>

\* the month headers of the csv
MonthHeaders == {
    << <<"2", "/", "1", "/", "2", "0", "2", "5">>, <<"1", "/", "1", "/", "2", "0", "2", "5">> >>,
    << <<"J", "a", "n", "u", "a", "r", "y">>, <<"F", "e", "b", "r", "u", "a", "r", "y">> >>,
    << <<"J", "a", "n", "-", "2", "5">>, <<"F", "e", "b", "-", "2", "5">> >> }

CsvLabels == {
    <<"G", "M", "V">>,
    <<"#", " ", "I", "n", "v", "o", "i", "c", "e", "s">>,
    <<"U", "S", "D", " ", "t", "o", " ", "E", "U", "R", " ", "h", "i", "s", "t", "o", "r", "i", "c", "a", "l", " ", "R", "a", "t", "e", "s", " ", "(", "E", "o", "M", ")">>,
    <<"C", "a", "s", "h", " ", "D", "r", "a", "g">> }

\* the cells of a csv row, one per month: strings, or NaN for an empty field
CsvPatterns == {
    << Str(<<"$", "1", ",", "0", "0", "0">>), Str(<<"1", "1", "0", "0">>) >>,
    << NA, Str(<<"(", "5", "0", ")">>) >>,
    << Str(<<"0", ".", "9", "2">>), Str(<<"0", ".", "9", "3">>) >>,
    << Str(<<"0">>), Str(<<"1", "5", ".", "5", "%">>) >> }

\* a row labelled with a metric key itself: 'gmv' and 'GMV' name the same metric
CsvKeyRow == <<Str(<<"g", "m", "v">>), Str(<<"2", "0">>), Str(<<"3", "0">>)>>

CsvRows == {<<Str(l)>> \o p : l \in CsvLabels, p \in CsvPatterns} \cup {CsvKeyRow}

Csvs == {DataFrame(<<<<"M", "e", "t", "r", "i", "c">>>> \o h, rws) : h \in MonthHeaders, rws \in RowSeqs(CsvRows, MaxRows)}

KpisInit ==
    /\ wide \in Csvs
    /\ df_long = <<>>
    /\ df_pivot = EmptyFrame
    /\ df_conv = EmptyFrame
    /\ convert_currency = FALSE
    /\ kpc = "csv"
    /\ kerr = "none"

ConvInit ==
    /\ PipelineOff
    /\ CallsOff
    /\ WebOff
    /\ \/ FetchInit /\ KpisOff
       \/ KpisInit /\ FetchOff

ConvNext ==
    \/ CleanAndProcess
    \/ ConvertToEur
    \/ ConvertToEurDirect
    \/ ConvertWideToLong
    \/ \E cc \in BOOLEAN : CreatePipelineCompatibleFormat(cc)
    \/ ConvertUsdToEur

SpecConvert == ConvInit /\ [][ConvNext]_vars

(***************************************************************************)
(* Specification of the pipeline orchestrator                              *)
(***************************************************************************)
Init ==
    /\ data_source \in {"csv", "google_sheets"}
    /\ raw_data = None
    /\ transformed_data = None
    /\ disk = NoFiles
    /\ out_dir \in BOOLEAN
    /\ pc = "idle"
    /\ run = NoRun
    /\ last = [op |-> "__init__", outcome |-> "none", n |-> 0]
    /\ ncalls = 0
    /\ FetchOff
    /\ KpisOff
    /\ CallsOff
    /\ WebOff

Next ==
    \/ \E f \in Files : LoadData(f)
    \/ TransformData
    \/ GenerateSummaryStats
    \/ ExportForDashboard
    \/ \E f \in Files : RunPipeline(f)
    \/ RunLoad
    \/ RunTransform
    \/ RunSummarize
    \/ RunExport
    \/ RunReturn
    \/ RunExcept

Spec == Init /\ [][Next]_vars

(***************************************************************************)
(* Single calls of the cleaning, metric and validation functions           *)
(***************************************************************************)
\* the characters a raw cell is made of
RawChars == {"1", "5", ".", "%", "$", "(", ")", "-", "a", " "}

\* cells as the spreadsheets hold them
ExampleStrings == {
    <<"a", "b", "c">>,
    <<"1", "5", ".", "5", "%">>,
    <<"$", "1", ",", "0", "0", "0">>,
    <<"(", "5", "0", ")">>,
    <<"i", "n", "f">>,
    <<"N", "a", "N">> }

\* a raw cell: null, a number, or a string: one of the examples, or any
\* string of at most MaxCellLen of the characters above
RawCells ==
    {NA, Num(Dec(1000, 0)), Num(Dec(0 - 155, 1)), Num(Dec(0, 0))}
        \cup {Str(s \o <<>>) :
                s \in ExampleStrings \cup UNION {[1..n -> RawChars] : n \in 0..MaxCellLen}}

\* clean_data.column_mapping
column_mapping == <<
    << <<"G", "M", "V">>,
       <<"g", "m", "v">> >>,
    << <<"F", "u", "n", "d", "e", "d", " ", "A", "m", "o", "u", "n", "t">>,
       <<"f", "u", "n", "d", "e", "d", "_", "a", "m", "o", "u", "n", "t">> >>,
    << <<"A", "v", "g", " ", "D", "a", "y", "s", " ", "O", "u", "t", "s", "t", "a", "n", "d", "i", "n", "g">>,
       <<"a", "v", "g", "_", "d", "a", "y", "s", "_", "o", "u", "t", "s", "t", "a", "n", "d", "i", "n", "g">> >>,
    << <<"#", " ", "I", "n", "v", "o", "i", "c", "e", "s">>,
       <<"n", "u", "m", "_", "i", "n", "v", "o", "i", "c", "e", "s">> >>,
    << <<"#", " ", "B", "o", "x", "e", "s">>,
       <<"n", "u", "m", "_", "b", "o", "x", "e", "s">> >>,
    << <<"m", "o", "n", "t", "h">>,
       <<"m", "o", "n", "t", "h">> >> >>

\* column_mapping.get(col, col)
RenamedColumn(col) ==
    IF \E i \in 1..Len(column_mapping) : column_mapping[i][1] = col
    THEN column_mapping[CHOOSE i \in 1..Len(column_mapping) : column_mapping[i][1] = col][2]
    ELSE col

\* raw metric labels: those of the known-label table, and some it does not hold
Labels ==
    {metric_mapping[i][1] : i \in 1..Len(metric_mapping)} \cup
    { <<"N", "e", "t", " ", "R", "e", "v", "e", "n", "u", "e">>,
      <<"#", " ", "C", "l", "i", "e", "n", "t", "s">>,
      <<"m", "o", "n", "t", "h">>,
      <<"g", "m", "v">> }

\* pd.to_datetime(s, format='%m/%d/%y', errors='coerce'): a two-digit year
\* up to 68 is of this century, from 69 of the last
ParseMDYShort(s) ==
    LET f == SlashFields(s) IN
    IF f = <<>> THEN NaT
    ELSE DateOf(f[1], f[2], f[3], 2,
                IF AllDigits(f[3]) /\ DigitsVal(f[3]) <= 68 THEN 2000 ELSE 1900)

\* pd.to_datetime(s, errors='coerce') without a format, on a text none of the
\* formats above reads: what the general parser makes of it depends on the
\* pandas and dateutil at hand.  Letters that name no month are no date; a
\* text such as 'Jan-25' may be read as a month of a year, as a day of the
\* current year, or not at all.
GeneralParse(s) ==
    IF \A i \in 1..Len(s) : ~IsDigit(s[i]) THEN {NaT}
    ELSE {NaT, DateKey(2025, 1, 1), DateKey(current_year, 1, 25)}

\* clean_data on the month column: the dates of the rows (general: what the
\* general parser gives), and the rows 'df[df['month'].notna()]' keeps
clean_data_rows(months, general) ==
    LET n == Len(months)
        mdy == [i \in 1..n |-> ParseMDY(months[i])] \o <<>>
        named == [i \in 1..n |->
                    ParseMonthNameYear(months[i] \o <<" ", "2", "0", "2", "5">>)] \o <<>>
        short == [i \in 1..n |-> ParseMDYShort(months[i])] \o <<>>
        allNaT(d) == \A i \in 1..n : d[i] = NaT
        dates == IF ~allNaT(mdy) THEN mdy
                 ELSE IF ~allNaT(named) THEN named
                 ELSE IF ~allNaT(short) THEN short
                 ELSE general
        valid(r) == r.month # NaT
    IN SelectSeq([i \in 1..n |-> [row |-> i, header |-> months[i], month |-> dates[i]]], valid)

\* the texts of the month column
MonthTexts == {
    <<"1", "/", "1", "/", "2", "0", "2", "5">>,
    <<"2", "/", "1", "/", "2", "0", "2", "5">>,
    <<"J", "a", "n", "u", "a", "r", "y">>,
    <<"1", "/", "1", "/", "2", "5">>,
    <<"1", "/", "1", "/", "9", "9">>,
    <<"a", "b", "c">>,
    <<"J", "a", "n", "-", "2", "5">> }

\* the month columns of at most MaxMonths rows
MonthColumns == UNION {[1..n -> MonthTexts] : n \in 1..MaxMonths}

\* ---- calculate_metrics on the columns of the cleaned table ----
RECURSIVE GCD(_, _)
GCD(a, b) == IF b = 0 THEN a ELSE GCD(b, a % b)

\* the float n / d of a numeric column, in lowest terms (d > 0)
Real(n, d) ==
    LET g == GCD(IF n < 0 THEN 0 - n ELSE n, d)
    IN [t |-> "real", n |-> n \div g, d |-> d \div g]

\* the sign of a float that is not NaN
SignOf(x) == IF x.t = "inf" THEN x.v ELSE IF x.n < 0 THEN 0 - 1 ELSE 1

\* a / b of two floats: NaN spreads, x / 0 is infinite, 0 / 0 is NaN
FDiv(a, b) ==
    IF a.t = "na" \/ b.t = "na" THEN NA
    ELSE IF a.t = "inf" THEN (IF b.t = "inf" THEN NA ELSE Inf(SignOf(a) * SignOf(b)))
    ELSE IF b.t = "inf" THEN Real(0, 1)
    ELSE IF b.n = 0 THEN (IF a.n = 0 THEN NA ELSE Inf(SignOf(a)))
    ELSE Real(a.n * b.d * SignOf(b), a.d * b.n * SignOf(b))

\* a - b of two floats (b finite)
FSub(a, b) ==
    IF a.t = "na" \/ b.t = "na" THEN NA
    ELSE IF a.t = "inf" THEN a
    ELSE Real(a.n * b.d - b.n * a.d, a.d * b.d)

\* a * 100
FMul100(a) == IF a.t = "real" THEN Real(a.n * 100, a.d) ELSE a

\* a <= k for a whole number k: False for NaN
FLe(a, k) ==
    IF a.t = "na" THEN FALSE
    ELSE IF a.t = "inf" THEN a.v < 0
    ELSE a.n <= k * a.d

\* Series.round(2): to the nearest hundredth, a tie to the even one
Round2(a) ==
    IF a.t # "real" THEN a
    ELSE LET fl == (100 * a.n) \div a.d
             rem == 100 * a.n - fl * a.d
         IN IF 2 * rem < a.d \/ (2 * rem = a.d /\ fl % 2 = 0)
            THEN Real(fl, 100)
            ELSE Real(fl + 1, 100)

\* Series.fillna(method='pad'): a missing value takes the last one before it
RECURSIVE Pad(_)
Pad(col) ==
    IF Len(col) <= 1 THEN col
    ELSE LET front == Pad(SubSeq(col, 1, Len(col) - 1))
             x == col[Len(col)]
         IN Append(front, IF x.t = "na" THEN front[Len(front)] ELSE x)

\* Series.pct_change() of pandas 2.0.3: the column is padded first, then
\* data / data.shift(1) - 1
pct_change(col) ==
    LET data == Pad(col)
    IN [i \in 1..Len(col) |->
            IF i = 1 THEN NA ELSE FSub(FDiv(data[i], data[i - 1]), Real(1, 1))] \o <<>>

\* Python's None in a column of objects
PyNone == [t |-> "none"]

\* lambda x: 'Excellent' if x <= 20 else ('Good' if x <= 25 else
\* 'Needs Improvement') if pd.notna(x) else None
days_performance_unguarded(x) ==
    IF FLe(x, 20) THEN Str(<<"E", "x", "c", "e", "l", "l", "e", "n", "t">>)
    ELSE IF FLe(x, 25) THEN Str(<<"G", "o", "o", "d">>)
    ELSE Str(<<"N", "e", "e", "d", "s", " ", "I", "m", "p", "r", "o", "v", "e", "m", "e", "n", "t">>)

days_performance(x) ==
    IF FLe(x, 20) THEN Str(<<"E", "x", "c", "e", "l", "l", "e", "n", "t">>)
    ELSE IF notna(x)
         THEN (IF FLe(x, 25) THEN Str(<<"G", "o", "o", "d">>)
               ELSE Str(<<"N", "e", "e", "d", "s", " ", "I", "m", "p", "r", "o", "v", "e", "m", "e", "n", "t">>))
         ELSE PyNone

\* the sum of the numbers of a column from row a to row b, NaN skipped
RECURSIVE SumFrom(_, _, _)
SumFrom(col, a, b) ==
    IF a > b THEN Real(0, 1)
    ELSE IF col[b].t # "real" THEN SumFrom(col, a, b - 1)
    ELSE LET rest == SumFrom(col, a, b - 1)
         IN Real(rest.n * col[b].d + col[b].n * rest.d, rest.d * col[b].d)

\* the number of rows from a to b that hold a number
Valid(col, a, b) == Cardinality({i \in a..b : col[i].t = "real"})

\* Series.rolling(window=3, min_periods=1).mean(): the mean of the numbers in
\* the row and the two rows before it, NaN when there is none
rolling_mean(col) ==
    [i \in 1..Len(col) |->
        LET a == IF i > 2 THEN i - 2 ELSE 1
        IN IF Valid(col, a, i) = 0 THEN NA
           ELSE FDiv(SumFrom(col, a, i), Real(Valid(col, a, i), 1))] \o <<>>

\* Series.cumsum(): the running sum, NaN where the row is NaN
cumsum(col) ==
    [i \in 1..Len(col) |-> IF col[i].t # "real" THEN NA ELSE SumFrom(col, 1, i)] \o <<>>

\* the derived columns calculate_metrics adds to the table
calculate_metrics_columns(df) ==
    LET n == Len(df)
        gmv == [i \in 1..n |-> df[i].gmv] \o <<>>
        growth == pct_change(gmv)
    IN [boxes_per_invoice |->
            [i \in 1..n |-> Round2(FDiv(df[i].num_boxes, df[i].num_invoices))] \o <<>>,
        gmv_mom_growth |-> [i \in 1..n |-> FMul100(growth[i])] \o <<>>,
        gmv_ma3 |-> rolling_mean(gmv),
        cumulative_gmv |-> cumsum(gmv),
        days_performance |->
            [i \in 1..n |-> days_performance(df[i].avg_days_outstanding)] \o <<>>]

\* rows of the cleaned table: numeric columns, NaN where a cell was not a number
CleanRows == {
    [gmv |-> Real(100, 1), num_boxes |-> Real(10, 1),
     num_invoices |-> Real(5, 1), avg_days_outstanding |-> Real(20, 1)],
    [gmv |-> Real(150, 1), num_boxes |-> Real(10, 1),
     num_invoices |-> Real(4, 1), avg_days_outstanding |-> Real(25, 1)],
    [gmv |-> Real(120, 1), num_boxes |-> Real(10, 1),
     num_invoices |-> Real(3, 1), avg_days_outstanding |-> Real(26, 1)],
    [gmv |-> NA, num_boxes |-> Real(10, 1),
     num_invoices |-> Real(0, 1), avg_days_outstanding |-> NA],
    [gmv |-> Real(0, 1), num_boxes |-> Real(0, 1),
     num_invoices |-> Real(0, 1), avg_days_outstanding |-> Real(21, 1)],
    [gmv |-> Real(100, 1), num_boxes |-> NA,
     num_invoices |-> Real(5, 1), avg_days_outstanding |-> Real(41, 2)],
    [gmv |-> Real(150, 1), num_boxes |-> Real(7, 1),
     num_invoices |-> NA, avg_days_outstanding |-> Real(51, 2)] }

\* the cleaned tables of at most MaxMonths rows
CleanTables == UNION {[1..n -> CleanRows] : n \in 1..MaxMonths}

\* ---- transform_data: clean_data, then calculate_metrics on what it returns ----
\* the rows of clean_data's table, in the order clean_data leaves them, and the
\* derived columns calculate_metrics adds to them
transform_data_rows(raw) ==
    LET months == [i \in 1..Len(raw) |-> raw[i].month] \o <<>>
        kept == clean_data_rows(months, [i \in 1..Len(raw) |-> NaT] \o <<>>)
        df == [k \in 1..Len(kept) |-> raw[kept[k].row].cells] \o <<>>
    IN [rows |-> kept, metrics |-> calculate_metrics_columns(df)]

\* the rows of the loaded csv: a date as text, and the row's numbers
LoadedRows ==
    {[month |-> m, cells |-> c] :
        m \in {<<"1", "/", "1", "/", "2", "0", "2", "5">>,
               <<"2", "/", "1", "/", "2", "0", "2", "5">>,
               <<"3", "/", "1", "/", "2", "0", "2", "5">>},
        c \in {r \in CleanRows : r.num_invoices \in {Real(5, 1), Real(4, 1), Real(0, 1)}}}

\* the loaded tables of at most MaxMonths rows, in any row order
LoadedTables == UNION {[1..n -> LoadedRows] : n \in 1..MaxMonths}

\* ---- validation_service.check_period_continuity ----
month_order == <<
    <<"J", "a", "n">>,
    <<"F", "e", "b">>,
    <<"M", "a", "r">>,
    <<"A", "p", "r">>,
    <<"M", "a", "y">>,
    <<"J", "u", "n">>,
    <<"J", "u", "l">>,
    <<"A", "u", "g">>,
    <<"S", "e", "p">>,
    <<"O", "c", "t">>,
    <<"N", "o", "v">>,
    <<"D", "e", "c">> >>

\* col.split('-')
Split(col) ==
    LET cuts == Ascending({i \in 1..Len(col) : col[i] = "-"}, Len(col))
        from(k) == IF k = 1 THEN 1 ELSE cuts[k - 1] + 1
        to(k) == IF k = Len(cuts) + 1 THEN Len(col) ELSE cuts[k] - 1
    IN [k \in 1..(Len(cuts) + 1) |-> SubSeq(col, from(k), to(k))] \o <<>>

\* an entry of the list of issues
Issue(severity, message) == [severity |-> severity, message |-> message]

\* check_period_continuity(data): the list of issues, or the exception.  A
\* message is its fixed text and the column names it is formatted with.
check_period_continuity(data) ==
    LET notMonth(col) == col # S_month
        period_columns == SelectSeq(data.columns, notMonth)
        n == Len(period_columns)
        parts(col) == Split(col)
        \* the try block on one column: parsed, or the warning it adds
        isParsed(col) == Len(parts(col)) = 2 /\ IndexOf(parts(col)[1], month_order) # 0
        warning(col) ==
            IF Len(parts(col)) = 1
            THEN Issue("warning", <<"Period column does not match expected format (MMM-YY)", col>>)
            ELSE IF Len(parts(col)) = 2
            THEN Issue("warning", <<"Unrecognized month format", col>>)
            ELSE Issue("warning", <<"Error parsing period column", col>>)
        unparsed(col) == ~isParsed(col)
        warnings == LET cols == SelectSeq(period_columns, unparsed)
                    IN [k \in 1..Len(cols) |-> warning(cols[k])] \o <<>>
        parsed_periods == SelectSeq(period_columns, isParsed)
        P == Len(parsed_periods)
        idx(k) == IndexOf(parts(parsed_periods[k])[1], month_order) - 1
        year(k) == parts(parsed_periods[k])[2]
        \* int(current_year) of a year that is no numeral
        fails(k) == idx(k) = 11 /\ ~AllDigits(year(k))
        expected_next_year(k) ==
            IF idx(k) < 11 THEN year(k) ELSE NatToStr(DigitsVal(year(k)) + 1)
        gap(k) == \/ idx(k + 1) # (idx(k) + 1) % 12
                  \/ year(k + 1) # expected_next_year(k)
        gaps == SelectSeq([k \in 1..(IF P = 0 THEN 0 ELSE P - 1) |-> k], gap)
        found == [j \in 1..Len(gaps) |->
                    Issue("info", <<"Non-consecutive periods",
                                    parsed_periods[gaps[j]], parsed_periods[gaps[j] + 1]>>)] \o <<>>
    IN IF data.rows = 0 \/ data.columns = <<>> THEN Ok(<<>>)
       ELSE IF n < 2
       THEN Ok(<<Issue("info", <<"Only period(s) found, cannot check continuity", n>>)>>)
       ELSE IF \E k \in 1..(P - 1) : fails(k) THEN Raise("ValueError")
       ELSE Ok(warnings \o found)

\* the names of the period columns of a dashboard table
PeriodNames == {
    <<"J", "a", "n", "-", "2", "5">>,
    <<"F", "e", "b", "-", "2", "5">>,
    <<"M", "a", "r", "-", "2", "5">>,
    <<"N", "o", "v", "-", "2", "4">>,
    <<"D", "e", "c", "-", "2", "4">>,
    <<"D", "e", "c", "-", "0", "8">>,
    <<"J", "a", "n", "-", "0", "9">>,
    <<"D", "e", "c", "-", "9", "9">>,
    <<"J", "a", "n", "-", "0", "0">>,
    <<"Q", "1", " ", "2", "0", "2", "5">>,
    <<"J", "a", "n", "u", "a", "r", "y", "-", "2", "5">> }

\* dashboard tables of at most MaxPeriods period columns, with or without rows
PeriodTables ==
    {[columns |-> <<S_month>> \o c, rows |-> r] :
        c \in UNION {[1..n -> PeriodNames] : n \in 1..MaxPeriods}, r \in {0, 1}}

\* ---- fetch_from_sheets.prepare_dashboard_json ----
\* pd.to_datetime(col).strftime('%b-%y') of 'YYYY-MM-DD 00:00:00'; a header
\* that is no such date is kept as it is
FormatPeriod(col) ==
    LET ys == SubSeq(col, 1, 4)
        ms == SubSeq(col, 6, 7)
        m == DigitsVal(ms)
    IN IF ~Contains(col, <<"0", "0", ":", "0", "0", ":", "0", "0">>) THEN col
       ELSE IF Len(col) = 19 /\ AllDigits(ys) /\ AllDigits(ms) /\ m \in 1..12
                 /\ col[5] = "-" /\ col[8] = "-" /\ AllDigits(SubSeq(col, 9, 10))
            THEN month_order[m] \o <<"-">> \o SubSeq(ys, 3, 4)
            ELSE col

\* date_cols = [col for col in df_usd.columns if col != 'month'], as positions
date_cols(df) ==
    Ascending({c \in 1..Len(df.columns) : df.columns[c] # S_month}, Len(df.columns))

\* metric_name = str(row['month']); the label of a row the sheet left empty is None
MetricName(c) == IF c.t = "str" THEN c.v ELSE <<"N", "o", "n", "e">>

\* float(val), or str(val) when it is no number, or None for a missing cell
JsonValue(val) ==
    IF isna(val) THEN PyNone
    ELSE IF val.t # "str" THEN val
    ELSE IF val.v \in {<<>>, <<"<", "N", "A", ">">>} THEN PyNone
    ELSE IF float(val.v).exc = "none" THEN float(val.v).val
    ELSE val

\* the values of row i of df under the period columns of df_usd
RowValues(df, i, du) ==
    [k \in 1..Len(date_cols(du)) |->
        JsonValue(df.rows[i][ColIndex(df, du.columns[date_cols(du)[k]])])] \o <<>>

\* data['values_xxx'][metric_name] = values, row after row: the last row of a
\* name is the one the dict keeps
ValuesDict(df, du) ==
    LET mi == ColIndex(df, S_month)
        keys == {MetricName(df.rows[i][mi]) : i \in 1..Len(df.rows)}
        lastrow(k) == CHOOSE i \in 1..Len(df.rows) :
                         /\ MetricName(df.rows[i][mi]) = k
                         /\ \A j \in (i + 1)..Len(df.rows) : MetricName(df.rows[j][mi]) # k
    IN [k \in keys |-> RowValues(df, lastrow(k), du)]

\* [values[i] for i in filtered_indices]
Take(values, filtered_indices) ==
    IF \E k \in 1..Len(filtered_indices) : filtered_indices[k] > Len(values)
    THEN Raise("IndexError")
    ELSE Ok([k \in 1..Len(filtered_indices) |-> values[filtered_indices[k]]] \o <<>>)

\* if metric in data['values_xxx']: data['values_xxx'][metric] = [...]
FilterMetric(values, metric, filtered_indices) ==
    IF values.exc # "none" THEN values
    ELSE IF metric.t # "str" THEN values
    ELSE IF metric.v \notin DOMAIN values.val THEN values
    ELSE LET t == Take(values.val[metric.v], filtered_indices)
         IN IF t.exc # "none" THEN t
            ELSE Ok([values.val EXCEPT ![metric.v] = t.val])

\* for metric in data['metrics']: ..., from the j-th metric on
RECURSIVE FilterMetrics(_, _, _, _)
FilterMetrics(values, metrics, j, filtered_indices) ==
    IF j > Len(metrics) THEN values
    ELSE FilterMetrics(FilterMetric(values, metrics[j], filtered_indices),
                       metrics, j + 1, filtered_indices)

\* load_config(): None without a config.json, else its exclude_periods list
\* (empty when the document has no such key)
NoConfig == [file |-> FALSE, exclude_periods |-> <<>>]
Config(exclude_periods) == [file |-> TRUE, exclude_periods |-> exclude_periods]

\* prepare_dashboard_json(df_usd, df_eur) under the configuration `config`
prepare_dashboard_json(du, de, config) ==
    LET cols == date_cols(du)
        formatted_periods == [k \in 1..Len(cols) |-> FormatPeriod(du.columns[cols[k]])] \o <<>>
        metrics == [i \in 1..Len(du.rows) |-> du.rows[i][ColIndex(du, S_month)]] \o <<>>
        filtered_indices ==
            Ascending({i \in 1..Len(formatted_periods) :
                          formatted_periods[i] \notin Range(config.exclude_periods)},
                      Len(formatted_periods))
        filtered_periods ==
            [k \in 1..Len(filtered_indices) |-> formatted_periods[filtered_indices[k]]] \o <<>>
        usd == FilterMetrics(Ok(ValuesDict(du, du)), metrics, 1, filtered_indices)
        eur == FilterMetrics(Ok(ValuesDict(de, du)), metrics, 1, filtered_indices)
    IN IF ~config.file \/ config.exclude_periods = <<>>
       THEN Ok([metrics |-> metrics, periods |-> formatted_periods,
                values_usd |-> ValuesDict(du, du), values_eur |-> ValuesDict(de, du)])
       ELSE IF usd.exc # "none" THEN usd
       ELSE IF eur.exc # "none" THEN eur
       ELSE Ok([metrics |-> metrics, periods |-> filtered_periods,
                values_usd |-> usd.val, values_eur |-> eur.val])

\* the period headers of the cleaned table
DashNames == {
    <<"J", "a", "n", "-", "2", "5">>,
    <<"F", "e", "b", "-", "2", "5">>,
    <<"2", "0", "2", "5", "-", "0", "2", "-", "0", "1", " ", "0", "0", ":", "0", "0", ":", "0", "0">> }

DashHeaders ==
    {h \in UNION {[1..n -> DashNames] : n \in 1..MaxPeriods} :
        \A i, j \in 1..Len(h) : h[i] = h[j] => i = j}

\* the labels of the rows: a metric, the rate, and the None of an empty sheet row
DashLabels == {Str(<<"G", "M", "V">>), Str(<<"U", "S", "D", "/", "E", "U", "R", " ", "R", "a", "t", "e">>), NA}

\* the cleaned cells of a row, period after period
DashPatterns == {
    <<Str(<<"1", "0">>), Str(<<"2", "0">>), NA>>,
    <<Str(<<"0", ".", "5">>), Str(<<"N", "o", "n", "e">>), Str(<<"2">>)>> }

DashRow(l, p, n) == <<l>> \o [c \in 1..n |-> p[((c - 1) % Len(p)) + 1]]

\* df_usd as clean_and_process leaves it, df_eur = convert_to_eur(df_usd.copy())
DashTables ==
    UNION {{DataFrame(<<S_month>> \o h, rws) :
               rws \in RowSeqs({DashRow(l, p, Len(h)) : l \in DashLabels, p \in DashPatterns}, MaxRows)} :
           h \in DashHeaders}

Configs == {NoConfig, Config(<<>>), Config(<< <<"F", "e", "b", "-", "2", "5">> >>),
            Config(<< <<"J", "a", "n", "-", "2", "5">>, <<"D", "e", "c", "-", "2", "4">> >>)}

DashInputs ==
    {[df_usd |-> du, df_eur |-> convert_to_eur(du).ret, config |-> c] :
        du \in DashTables, c \in Configs}

\* dashboard_data = prepare_dashboard_json(df_usd, df_eur)
PrepareDashboardJson ==
    /\ upc = "tables"
    /\ res' = prepare_dashboard_json(arg.df_usd, arg.df_eur, arg.config)
    /\ upc' = "prepare_dashboard_json"
    /\ UNCHANGED <<arg, pvars, fvars, kvars, wvars>>

\* clean_currency_value(value)
CleanCurrencyValue ==
    /\ upc = "cell"
    /\ res' = clean_currency_value_call(arg)
    /\ upc' = "clean_currency_value"
    /\ UNCHANGED <<arg, pvars, fvars, kvars, wvars>>

\* standardize_metric_name(metric_name)
StandardizeMetricName ==
    /\ upc = "label"
    /\ res' = standardize_metric_name(arg)
    /\ upc' = "standardize_metric_name"
    /\ UNCHANGED <<arg, pvars, fvars, kvars, wvars>>

\* clean_data's renaming of one column
RenameColumn ==
    /\ upc = "label"
    /\ res' = RenamedColumn(arg)
    /\ upc' = "column_mapping"
    /\ UNCHANGED <<arg, pvars, fvars, kvars, wvars>>

\* df = self.clean_data(), as far as the month column goes
CleanData ==
    /\ upc = "months"
    /\ \E g \in [1..Len(arg) -> {NaT, DateKey(2025, 1, 1), DateKey(current_year, 1, 25)}] :
        /\ \A i \in 1..Len(arg) : g[i] \in GeneralParse(arg[i])
        /\ res' = Ok(clean_data_rows(arg, g))
    /\ upc' = "clean_data"
    /\ UNCHANGED <<arg, pvars, fvars, kvars, wvars>>

\* df_metrics = self.calculate_metrics(df_clean)
CalculateMetrics ==
    /\ upc = "table"
    /\ res' = Ok(calculate_metrics_columns(arg))
    /\ upc' = "calculate_metrics"
    /\ UNCHANGED <<arg, pvars, fvars, kvars, wvars>>

\* pipeline.transform_data() on the loaded table
TransformDataRows ==
    /\ upc = "raw"
    /\ res' = Ok(transform_data_rows(arg))
    /\ upc' = "transform_data"
    /\ UNCHANGED <<arg, pvars, fvars, kvars, wvars>>

\* issues = self.check_period_continuity(data)
CheckPeriodContinuity ==
    /\ upc = "periods"
    /\ res' = check_period_continuity(arg)
    /\ upc' = "check_period_continuity"
    /\ UNCHANGED <<arg, pvars, fvars, kvars, wvars>>

CallsInit ==
    /\ PipelineOff
    /\ FetchOff
    /\ KpisOff
    /\ WebOff
    /\ res = None
    /\ \/ upc = "cell" /\ arg \in RawCells
       \/ upc = "label" /\ arg \in Labels
       \/ upc = "months" /\ arg \in MonthColumns
       \/ upc = "table" /\ arg \in CleanTables
       \/ upc = "periods" /\ arg \in PeriodTables
       \/ upc = "tables" /\ arg \in DashInputs
       \/ upc = "raw" /\ arg \in LoadedTables

CallsNext ==
    \/ CleanCurrencyValue
    \/ StandardizeMetricName
    \/ RenameColumn
    \/ CleanData
    \/ CalculateMetrics
    \/ CheckPeriodContinuity
    \/ PrepareDashboardJson
    \/ TransformDataRows

SpecCalls == CallsInit /\ [][CallsNext]_vars

(***************************************************************************)
(* AuthService.authenticate, UserService and the auth routes, one call at  *)
(* a time on one database session.  The users table holds one row.         *)
(***************************************************************************)
MaxTicks == 3

\* bcrypt.checkpw(password, password_hash)
verify_password(password, password_hash) == password_hash = hash_password(password)

\* create_token(user.id, user.email, user.role) at the time t
create_token(u, t) ==
    [sig |-> "JWT_SECRET_KEY", user_id |-> u.id, email |-> u.email, role |-> u.role,
     exp |-> t + TOKEN_EXPIRY_HOURS * 60, iat |-> t]

\* a token that JWT_SECRET_KEY did not sign
Forged == [sig |-> "other", user_id |-> 1, email |-> "test@example.com", role |-> "admin", exp |-> 0, iat |-> 0]

\* verify_token(token) at the time t: the payload, or the exception
verify_token(token, t) ==
    IF token.sig # "JWT_SECRET_KEY" THEN Raise("AuthenticationError")
    ELSE IF token.exp <= t THEN Raise("SessionExpiredError")
    ELSE Ok(token)

\* if not user.active
IsInactive_unchecked(u) == FALSE

IsInactive(u) == ~u.active

\* if user.locked_until: if datetime.utcnow() < user.locked_until
IsLocked_unenforced(u, t) == FALSE

IsLocked(u, t) == u.locked_until # NoTime /\ t < u.locked_until

\* else: user.locked_until = None; user.failed_login_attempts = 0
ExpireLockout_half(u) == [u EXCEPT !.locked_until = NoTime]

ExpireLockout(u) == [u EXCEPT !.locked_until = NoTime, !.failed_login_attempts = 0]

\* user.failed_login_attempts += 1, and the lock from MAX_LOGIN_ATTEMPTS on
RecordFailure_late(u, t) ==
    LET counted == [u EXCEPT !.failed_login_attempts = @ + 1]
    IN IF counted.failed_login_attempts > MAX_LOGIN_ATTEMPTS
       THEN [counted EXCEPT !.locked_until = t + ACCOUNT_LOCKOUT_MINUTES]
       ELSE counted

RecordFailure(u, t) ==
    LET counted == [u EXCEPT !.failed_login_attempts = @ + 1]
    IN IF counted.failed_login_attempts >= MAX_LOGIN_ATTEMPTS
       THEN [counted EXCEPT !.locked_until = t + ACCOUNT_LOCKOUT_MINUTES]
       ELSE counted

\* user.failed_login_attempts = 0; user.locked_until = None; user.last_login = utcnow()
RecordSuccess(u, t) ==
    [u EXCEPT !.failed_login_attempts = 0, !.locked_until = NoTime, !.last_login = t]

\* what authenticate leaves and answers
Authenticated(u, exc, msg, token, commits) ==
    [user |-> u, exc |-> exc, msg |-> msg, token |-> token, commits |-> commits]

\* the password check of authenticate and what follows it, on the row u
CheckPassword(u, password, t, commits) ==
    IF ~verify_password(password, u.password_hash)
    THEN IF RecordFailure(u, t).locked_until # NoTime
         THEN Authenticated(RecordFailure(u, t), "AccountLockedError", "Account locked after",
                            NoToken, Append(commits, RecordFailure(u, t)))
         ELSE Authenticated(RecordFailure(u, t), "AuthenticationError", "Invalid email or password",
                            NoToken, Append(commits, RecordFailure(u, t)))
    ELSE Authenticated(RecordSuccess(u, t), "none", "", create_token(u, t),
                       Append(commits, RecordSuccess(u, t)))

\* AuthService.authenticate(email, password) at the time t, the table holding u
authenticate(u, email, password, t) ==
    IF u.id = 0 \/ u.email # email
    THEN Authenticated(u, "AuthenticationError", "Invalid email or password", NoToken, <<>>)
    ELSE IF IsInactive(u)
    THEN Authenticated(u, "AuthenticationError", "Account is inactive", NoToken, <<>>)
    ELSE IF IsLocked(u, t)
    THEN Authenticated(u, "AccountLockedError", "Account is locked", NoToken, <<>>)
    ELSE IF u.locked_until # NoTime
    THEN CheckPassword(ExpireLockout(u), password, t, <<ExpireLockout(u)>>)
    ELSE CheckPassword(u, password, t, <<>>)

\* the arguments the calls are made with
Emails == {"test@example.com", "nonexistent@example.com"}

\* the addresses a row is created with (the table holds one row)
NewEmails == {"test@example.com", "invalid-email"}
Passwords == {"Password123!", "WrongPassword!"}
NewPasswords == {"Password123!", "short"}
Roles == {"viewer", "root"}

\* '@' in email
HasAt(email) == email # "invalid-email"

\* len(password) >= 8
LongEnough(password) == password # "short"

\* role in valid_roles
valid_roles == {"admin", "editor", "viewer"}

\* an optional argument: None, or a value
Some(v) == <<v>>

\* UserService.create_user(email, password, role, active): the row and the exception
create_user(u, email, password, role, active) ==
    IF ~HasAt(email) THEN [user |-> u, exc |-> "ValidationError", msg |-> "Invalid email format"]
    ELSE IF ~LongEnough(password)
    THEN [user |-> u, exc |-> "ValidationError", msg |-> "Password must be at least 8 characters"]
    ELSE IF role \notin valid_roles THEN [user |-> u, exc |-> "ValidationError", msg |-> "Invalid role"]
    ELSE IF u.id # 0
    THEN [user |-> u, exc |-> "ValidationError", msg |-> "Email already exists"]
    ELSE [user |-> [id |-> 1, email |-> email, password_hash |-> hash_password(password),
                    role |-> role, active |-> active, failed_login_attempts |-> 0,
                    locked_until |-> NoTime, last_login |-> NoTime],
          exc |-> "none", msg |-> ""]

\* UserService.update_user(user_id, password=..., active=...)
update_user(u, user_id, password, active) ==
    IF u.id = 0 \/ u.id # user_id THEN [user |-> u, exc |-> "ValidationError", msg |-> "User not found"]
    ELSE IF password # <<>> /\ ~LongEnough(password[1])
    THEN [user |-> u, exc |-> "ValidationError", msg |-> "Password must be at least 8 characters"]
    ELSE [user |-> [u EXCEPT !.password_hash = IF password # <<>> THEN hash_password(password[1]) ELSE @,
                             !.active = IF active # <<>> THEN active[1] ELSE @],
          exc |-> "none", msg |-> ""]

\* UserService.delete_user(user_id)
delete_user(u, user_id) ==
    IF u.id = 0 \/ u.id # user_id THEN [user |-> u, exc |-> "ValidationError", msg |-> "User not found"]
    ELSE [user |-> [u EXCEPT !.active = FALSE], exc |-> "none", msg |-> ""]

\* the status of the registered error handler of an exception
StatusOf(exc) ==
    IF exc = "none" THEN 200
    ELSE IF exc = "AccountLockedError" THEN 403
    ELSE IF exc \in {"AuthenticationError", "SessionExpiredError"} THEN 401
    ELSE IF exc = "ValidationError" THEN 400
    ELSE 500

\* require_auth: the token of the Authorization header, else of the cookie,
\* verified at the time t
require_auth(header, auth_token, t) ==
    LET token == IF header # NoToken THEN header ELSE auth_token
    IN IF token = NoToken THEN [status |-> 401, exc |-> "none", token |-> token]
       ELSE IF verify_token(token, t).exc # "none"
            THEN [status |-> 401, exc |-> verify_token(token, t).exc, token |-> token]
            ELSE [status |-> 200, exc |-> "none", token |-> token]

\* the tokens a client can present
Presentable == tokens \cup {NoToken, Forged}

\* the clock advances by d minutes
Tick(d) ==
    /\ nticks < MaxTicks
    /\ now' = now + d
    /\ nticks' = nticks + 1
    /\ UNCHANGED <<user, tokens, loggedout, cookie, resp, nreq>>
    /\ UNCHANGED <<pvars, fvars, kvars, uvars, sessions, dvars>>

\* user_service.create_user(email, password, role, active)
CreateUser(email, password, role, active) ==
    /\ \E r \in {create_user(user, email, password, role, active)} :
        /\ user' = r.user
        /\ resp' = Response("create_user", NoCredentials, 0, r.exc, r.msg, NoToken, <<>>)
    /\ nreq' = 1 - nreq
    /\ UNCHANGED <<now, nticks, tokens, loggedout, cookie>>
    /\ UNCHANGED <<pvars, fvars, kvars, uvars, sessions, dvars>>

\* user_service.update_user(user_id, password=password, active=active)
UpdateUser(user_id, password, active) ==
    /\ \E r \in {update_user(user, user_id, password, active)} :
        /\ user' = r.user
        /\ resp' = Response("update_user", NoCredentials, 0, r.exc, r.msg, NoToken, <<>>)
    /\ nreq' = 1 - nreq
    /\ UNCHANGED <<now, nticks, tokens, loggedout, cookie>>
    /\ UNCHANGED <<pvars, fvars, kvars, uvars, sessions, dvars>>

\* user_service.delete_user(user_id)
DeleteUser(user_id) ==
    /\ \E r \in {delete_user(user, user_id)} :
        /\ user' = r.user
        /\ resp' = Response("delete_user", NoCredentials, 0, r.exc, r.msg, NoToken, <<>>)
    /\ nreq' = 1 - nreq
    /\ UNCHANGED <<now, nticks, tokens, loggedout, cookie>>
    /\ UNCHANGED <<pvars, fvars, kvars, uvars, sessions, dvars>>

\* auth_service.authenticate(email, password)
Authenticate(email, password) ==
    /\ \E r \in {authenticate(user, email, password, now)} :
        /\ user' = r.user
        /\ resp' = Response("authenticate", Credentials(email, password, NoToken, NoToken), 0, r.exc, r.msg, r.token, r.commits)
    /\ nreq' = 1 - nreq
    /\ UNCHANGED <<now, nticks, tokens, loggedout, cookie>>
    /\ UNCHANGED <<pvars, fvars, kvars, uvars, sessions, dvars>>

\* POST /api/auth/login with the body {email, password}
Login(email, password) ==
    /\ IF email = ""
       THEN /\ resp' = Response("login", Credentials(email, password, NoToken, NoToken), 400, "none", "Email and password are required", NoToken, <<>>)
            /\ UNCHANGED <<user, tokens, cookie>>
       ELSE \E r \in {authenticate(user, email, password, now)} :
            /\ user' = r.user
            /\ tokens' = IF r.exc = "none" THEN tokens \cup {r.token} ELSE tokens
            /\ cookie' = IF r.exc = "none" THEN r.token ELSE cookie
            /\ resp' = Response("login", Credentials(email, password, NoToken, NoToken),
                             StatusOf(r.exc), r.exc, r.msg, r.token, r.commits)
    /\ nreq' = 1 - nreq
    /\ UNCHANGED <<now, nticks, loggedout>>
    /\ UNCHANGED <<pvars, fvars, kvars, uvars, sessions, dvars>>

\* POST /api/auth/logout presenting a token in the header and one in the cookie
Logout(header, auth_token) ==
    /\ \E a \in {require_auth(header, auth_token, now)} :
        /\ resp' = Response("logout", Credentials("", "", header, auth_token), a.status, a.exc, "", a.token, <<>>)
        /\ cookie' = IF a.status = 200 THEN NoToken ELSE cookie
        /\ loggedout' = IF a.status = 200 THEN loggedout \cup {a.token} ELSE loggedout
    /\ nreq' = 1 - nreq
    /\ UNCHANGED <<user, now, nticks, tokens>>
    /\ UNCHANGED <<pvars, fvars, kvars, uvars, sessions, dvars>>

\* GET /api/auth/verify, a route behind require_auth
Verify(header, auth_token) ==
    /\ \E a \in {require_auth(header, auth_token, now)} :
        resp' = Response("verify", Credentials("", "", header, auth_token), a.status, a.exc, "", a.token, <<>>)
    /\ nreq' = 1 - nreq
    /\ UNCHANGED <<user, now, nticks, tokens, loggedout, cookie>>
    /\ UNCHANGED <<pvars, fvars, kvars, uvars, sessions, dvars>>

WebInit ==
    /\ PipelineOff
    /\ FetchOff
    /\ KpisOff
    /\ CallsOff
    /\ WebOff

\* the users table under the calls of the two services
AuthNext ==
    \/ \E d \in {1, ACCOUNT_LOCKOUT_MINUTES} : Tick(d)
    \/ \E email \in NewEmails, password \in NewPasswords, role \in Roles, active \in BOOLEAN :
          CreateUser(email, password, role, active)
    \/ \E user_id \in {1, 2}, password \in {<<>>} \cup {Some(p) : p \in NewPasswords},
          active \in {<<>>, Some(TRUE), Some(FALSE)} :
          UpdateUser(user_id, password, active)
    \/ \E user_id \in {1, 2} : DeleteUser(user_id)
    \/ \E email \in Emails, password \in Passwords : Authenticate(email, password)

SpecAuth == WebInit /\ [][AuthNext]_vars

\* the auth routes as a logged-in client uses them
SessionNext ==
    \/ \E d \in {1, TOKEN_EXPIRY_HOURS * 60} : Tick(d)
    \/ CreateUser("test@example.com", "Password123!", "viewer", TRUE)
    \/ \E email \in {"test@example.com", ""} : Login(email, "Password123!")
    \/ \E header \in Presentable, auth_token \in Presentable : Logout(header, auth_token)
    \/ \E header \in Presentable, auth_token \in Presentable : Verify(header, auth_token)

SpecSession == WebInit /\ [][SessionNext]_vars

(***************************************************************************)
(* POST /api/auth/login served concurrently: every request has its own     *)
(* database session (get_session()), which loads the row, changes its copy *)
(* and commits.  A step is one statement sent to the database.             *)
(***************************************************************************)
MaxLogins == 6

\* session.commit(): the UPDATE sets the columns the session changed on its
\* copy since it loaded it, whatever the table holds by now
WriteBack(db, loaded, changed) ==
    [f \in DOMAIN db |-> IF changed[f] # loaded[f] THEN changed[f] ELSE db[f]]

\* a request: its position in authenticate, the password it sent, the row its
\* session holds, and its answer
Request(at, password, row, exc, checked) ==
    [pc |-> at, password |-> password, row |-> row, exc |-> exc, checked |-> checked]

\* db_session = get_session(); user = db_session.query(User).filter(...).first()
LoginQuery(password) ==
    /\ Len(sessions) < MaxLogins
    /\ sessions' = Append(sessions, Request("loaded", password, user, "none", FALSE))
    /\ UNCHANGED <<avars, pvars, fvars, kvars, uvars, dvars>>

\* authenticate from the active check to its first commit or raise
LoginCheck(i) ==
    /\ sessions[i].pc = "loaded"
    /\ LET q == sessions[i]
           r == authenticate(q.row, "test@example.com", q.password, now)
       IN IF q.row.id # 0 /\ ~IsInactive(q.row) /\ ~IsLocked(q.row, now) /\ q.row.locked_until # NoTime
          THEN /\ user' = WriteBack(user, q.row, ExpireLockout(q.row))
               /\ sessions' = [sessions EXCEPT ![i] = Request("expired", q.password, q.row, "none", FALSE)]
          ELSE /\ user' = WriteBack(user, q.row, r.user)
               /\ sessions' = [sessions EXCEPT ![i] =
                      Request("done", q.password, r.user, r.exc, r.commits # <<>>)]
    /\ UNCHANGED <<now, nticks, tokens, loggedout, cookie, resp, nreq>>
    /\ UNCHANGED <<pvars, fvars, kvars, uvars, dvars>>

\* after the commit the session's row is expired: user.password_hash loads it again
LoginRefresh(i) ==
    /\ sessions[i].pc = "expired"
    /\ sessions' = [sessions EXCEPT ![i] = Request("refreshed", sessions[i].password, user, "none", FALSE)]
    /\ UNCHANGED <<avars, pvars, fvars, kvars, uvars, dvars>>

\* the password check and its commit
LoginVerify(i) ==
    /\ sessions[i].pc = "refreshed"
    /\ LET q == sessions[i]
           r == CheckPassword(q.row, q.password, now, <<>>)
       IN /\ user' = WriteBack(user, q.row, r.user)
          /\ sessions' = [sessions EXCEPT ![i] = Request("done", q.password, r.user, r.exc, TRUE)]
    /\ UNCHANGED <<now, nticks, tokens, loggedout, cookie, resp, nreq>>
    /\ UNCHANGED <<pvars, fvars, kvars, uvars, dvars>>

LoginsNext ==
    \/ Tick(ACCOUNT_LOCKOUT_MINUTES)
    \/ CreateUser("test@example.com", "Password123!", "viewer", TRUE)
    \/ LoginQuery("WrongPassword!")
    \/ \E i \in 1..Len(sessions) : LoginCheck(i)
    \/ \E i \in 1..Len(sessions) : LoginRefresh(i)
    \/ \E i \in 1..Len(sessions) : LoginVerify(i)

SpecLogins == WebInit /\ [][LoginsNext]_vars

(***************************************************************************)
(* POST /update-dashboard: every request runs scripts/fetch_from_sheets.py *)
(* in a process of its own; the runs share OUTPUT_CSV and OUTPUT_JSON.     *)
(***************************************************************************)
MaxRuns == 2
MaxEdits == 2

\* what a run wrote to a file: the run, and the version of the sheet it fetched
Written(i) == [run |-> i, version |-> runs[i].version]

\* somebody edits the sheet
EditSheet ==
    /\ live_sheet < MaxEdits
    /\ live_sheet' = live_sheet + 1
    /\ UNCHANGED <<runs, csv_file, json_file>>
    /\ UNCHANGED <<pvars, fvars, kvars, uvars, avars, sessions>>

\* subprocess.run(['python', 'scripts/fetch_from_sheets.py']): main fetches the
\* sheet and computes df_usd and df_eur, or fails before it writes anything
RunFetch(ok) ==
    /\ Len(runs) < MaxRuns
    /\ runs' = Append(runs, [pc |-> IF ok THEN "fetched" ELSE "failed", version |-> live_sheet])
    /\ UNCHANGED <<live_sheet, csv_file, json_file>>
    /\ UNCHANGED <<pvars, fvars, kvars, uvars, avars, sessions>>

\* df_eur.to_csv(OUTPUT_CSV, index=False)
RunWriteCsv(i) ==
    /\ runs[i].pc = "fetched"
    /\ csv_file' = Written(i)
    /\ runs' = [runs EXCEPT ![i].pc = "csv"]
    /\ UNCHANGED <<live_sheet, json_file>>
    /\ UNCHANGED <<pvars, fvars, kvars, uvars, avars, sessions>>

\* dashboard_data = prepare_dashboard_json(df_usd, df_eur), which may raise;
\* with open(OUTPUT_JSON, 'w') as f: json.dump(dashboard_data, f, indent=2)
RunWriteJson(i, ok) ==
    /\ runs[i].pc = "csv"
    /\ json_file' = IF ok THEN Written(i) ELSE json_file
    /\ runs' = [runs EXCEPT ![i].pc = IF ok THEN "done" ELSE "failed"]
    /\ UNCHANGED <<live_sheet, csv_file>>
    /\ UNCHANGED <<pvars, fvars, kvars, uvars, avars, sessions>>

RunsNext ==
    \/ EditSheet
    \/ \E ok \in BOOLEAN : RunFetch(ok)
    \/ \E i \in 1..Len(runs) : RunWriteCsv(i)
    \/ \E i \in 1..Len(runs), ok \in BOOLEAN : RunWriteJson(i, ok)

SpecRuns == WebInit /\ [][RunsNext]_vars

(***************************************************************************)
(* Claims about the pipeline orchestrator                                  *)
(***************************************************************************)
IsPrefix(s, t) == Len(s) <= Len(t) /\ \A i \in 1..Len(s) : s[i] = t[i]

NewCall == last'.n # last.n

\* C1: while transformed_data is None (also right after a successful load_data),
\* a call of generate_summary_stats or export_for_dashboard reports ValueError,
\* writes no output file and leaves raw_data and transformed_data unchanged.
C1_PreconditionError ==
    [][(/\ transformed_data = None
        /\ NewCall
        /\ last'.op \in {"generate_summary_stats", "export_for_dashboard"})
       => (/\ last'.outcome = "ValueError"
           /\ disk' = disk
           /\ raw_data' = raw_data
           /\ transformed_data' = transformed_data)]_vars

\* an export was refused right after a successful load, before any transform
C1_Witness ==
    /\ last.op = "export_for_dashboard"
    /\ last.outcome = "ValueError"
    /\ raw_data # None
    /\ transformed_data = None
    /\ out_dir
    /\ disk = NoFiles

\* C2: a summary or an export that succeeds is computed from the data of the
\* most recent successful load (a reload invalidates the transformed data).
C2_NoStaleOutput ==
    /\ (last.op = "generate_summary_stats" /\ last.outcome = "none")
          => last.summary.of.gen = raw_data.gen
    /\ (last.op = "export_for_dashboard" /\ last.outcome = "none")
          => disk.csv.gen = raw_data.gen

\* C3: run_pipeline runs load, transform, summarize, export in this order, each
\* at most once; a stage that raises ends the run: no later stage runs, no
\* export file is written, and the caller gets the exception of that stage.
C3_RunOrder ==
    /\ IsPrefix(run.log, Stages)
    /\ pc \in {"load", "transform", "summarize", "export"}
          => run.exc = "none" /\ Stages[Len(run.log) + 1] = pc /\ disk = run.disk0
    /\ pc = "return" => run.exc = "none" /\ run.log = Stages
    /\ pc = "except" => run.exc # "none" /\ disk = run.disk0
    /\ last.op = "run_pipeline"
          => /\ IsPrefix(last.log, Stages)
             /\ last.log # <<>>
             /\ last.outcome = "none" => last.log = Stages
             /\ (last.n = ncalls /\ pc = "idle")
                   => last.outcome = run.exc /\ last.log = run.log

\* a run whose summarize stage raised: export never ran and the caller got the error
C3_Witness ==
    /\ pc = "idle"
    /\ last.op = "run_pipeline"
    /\ last.outcome = "OverflowError"
    /\ last.log = <<"load", "transform", "summarize">>
    /\ disk = NoFiles
    /\ out_dir

(***************************************************************************)
(* Currency conversion and reshaping                                       *)
(***************************************************************************)
\* main has called convert_to_eur
Converted == fpc \in {"converted", "reconverted"}

\* a step that calls convert_to_eur / convert_usd_to_eur on the caller's table
FetchCall == fpc \in {"cleaned", "converted"} /\ fpc' # fpc
KpisCall == kpc \in {"pivot", "converted"} /\ kpc' \in {"converted", "reconverted"} /\ kpc' # kpc

\* the label of row i, and the period columns, of a sheet
LabelOf(df, i) == df.rows[i][ColIndex(df, S_month)]
PeriodCols(df) == {c \in 1..Len(df.columns) : c # ColIndex(df, S_month)}

\* the rows whose label names an exchange-rate series
RateRows(df) ==
    {i \in 1..Len(df.rows) :
        \E k \in {<<"e", "x", "c", "h">>, <<"r", "a", "t", "e">>, <<"e", "u", "r">>, <<"u", "s", "d">>} :
            Contains(Lower(StrOf(LabelOf(df, i))), k)}

\* the rate series of a sheet that has one: its first such row
RateRowOf(df) == CHOOSE i \in RateRows(df) : \A j \in RateRows(df) : i <= j

\* row i holds a metric of the converter's list
Listed(df, i) == LabelOf(df, i).t = "str" /\ LabelOf(df, i).v \in currency_metrics

\* the amount and the rate of a cell can be multiplied
Convertible(a, r) == notna(a) /\ notna(r) /\ ~IsZero(r.v)

\* create_pipeline_compatible_format has run with convert_currency=True
PivotConverted == kpc = "converted" /\ df_conv = EmptyFrame

\* the pivoted table before its conversion
Unconverted == create_pipeline_compatible_format(df_long, FALSE).val

\* C4: a converter call leaves the table it was given unchanged, and a second
\* call on the same table returns the same converted amounts as the first.
C4_AppliedOnce ==
    [][/\ FetchCall => /\ df_usd' = df_usd
                       /\ (fpc = "converted" => df_eur' = df_eur)
       /\ KpisCall => /\ df_pivot' = df_pivot
                      /\ (df_conv # EmptyFrame => df_conv' = df_conv)]_vars

\* C5: a cell of a listed metric whose amount and rate are both numbers, the
\* rate not zero, is converted to the amount times the rate of the same period.
C5_SamePeriodRate ==
    /\ (Converted /\ RateRows(df_usd) # {}) =>
        \A i \in 1..Len(df_usd.rows) : \A c \in PeriodCols(df_usd) :
            LET a == to_numeric(df_usd.rows[i][c])
                r == to_numeric(df_usd.rows[RateRowOf(df_usd)][c])
            IN (Listed(df_usd, i) /\ Convertible(a, r)) =>
                    df_eur.rows[i][c] = Num(Mul(a.v, r.v))
    /\ LET u == Unconverted IN
       (PivotConverted /\ ColIndex(u, S_usd_eur_rate_eom) # 0) =>
        \A i \in 1..Len(u.rows) : \A c \in 1..Len(u.columns) :
            LET a == u.rows[i][c]
                r == u.rows[i][ColIndex(u, S_usd_eur_rate_eom)]
            IN (u.columns[c] \in Range(usd_columns) /\ Convertible(a, r)) =>
                    df_pivot.rows[i][c] = Num(Mul(a.v, r.v))

\* the documented example: GMV 1000000 / 1100000 at the rates 0.92 / 0.93
C5_Witness ==
    /\ fpc = "converted"
    /\ sheet = ExampleSheet
    /\ df_eur.rows[1][2] = Num(Dec(920000, 0))
    /\ df_eur.rows[1][3] = Num(Dec(1023000, 0))

\* C6: a cell of a listed metric whose amount is missing, or whose rate is
\* missing or zero, is missing in the converted table.
C6_MissingStaysMissing ==
    /\ (Converted /\ RateRows(df_usd) # {}) =>
        \A i \in 1..Len(df_usd.rows) : \A c \in PeriodCols(df_usd) :
            LET a == to_numeric(df_usd.rows[i][c])
                r == to_numeric(df_usd.rows[RateRowOf(df_usd)][c])
            IN (Listed(df_usd, i) /\ ~Convertible(a, r)) => isna(df_eur.rows[i][c])
    /\ LET u == Unconverted IN
       (PivotConverted /\ ColIndex(u, S_usd_eur_rate_eom) # 0) =>
        \A i \in 1..Len(u.rows) : \A c \in 1..Len(u.columns) :
            LET a == u.rows[i][c]
                r == u.rows[i][ColIndex(u, S_usd_eur_rate_eom)]
            IN (u.columns[c] \in Range(usd_columns) /\ ~Convertible(a, r)) =>
                    isna(df_pivot.rows[i][c])

\* C7: a table without an exchange-rate series is returned as it was given,
\* and no error is raised.
C7_NoRateNoOp ==
    /\ (Converted /\ RateRows(df_usd) = {}) => df_eur = df_usd
    /\ LET u == Unconverted IN
       (PivotConverted /\ ColIndex(u, S_usd_eur_rate_eom) = 0) =>
            df_pivot = u /\ kerr = "none"
    /\ (kpc \in {"converted", "reconverted"} /\ df_conv # EmptyFrame
            /\ ColIndex(df_pivot, S_usd_eur_rate_eom) = 0) =>
            df_conv = df_pivot /\ kerr = "none"

\* a sheet with the amounts of a listed metric and no rate row, converted
C7_Witness ==
    /\ fpc = "converted"
    /\ RateRows(df_usd) = {}
    /\ \E i \in 1..Len(df_usd.rows) : \E c \in PeriodCols(df_usd) :
            Listed(df_usd, i) /\ notna(to_numeric(df_usd.rows[i][c]))
    /\ df_eur = df_usd

\* C8: the rows (columns, in the pivoted form) of the metrics the converter
\* does not list are the same in the converted table as in the table given.
C8_OthersUnchanged ==
    /\ Converted =>
        \A i \in 1..Len(df_usd.rows) :
            ~Listed(df_usd, i) => df_eur.rows[i] = df_usd.rows[i]
    /\ LET u == Unconverted IN
       PivotConverted =>
        /\ df_pivot.columns = u.columns
        /\ \A i \in 1..Len(u.rows) : \A c \in 1..Len(u.columns) :
                u.columns[c] \notin Range(usd_columns) =>
                    df_pivot.rows[i][c] = u.rows[i][c]

\* a count with numbers, converted in a sheet whose rate row has a rate for
\* the same period
C8_Witness ==
    /\ fpc = "converted"
    /\ RateRows(df_usd) # {}
    /\ \E i \in 1..Len(df_usd.rows) : \E c \in PeriodCols(df_usd) :
            /\ LabelOf(df_usd, i) = Str(<<"#", " ", "I", "n", "v", "o", "i", "c", "e", "s">>)
            /\ Convertible(to_numeric(df_usd.rows[i][c]),
                           to_numeric(df_usd.rows[RateRowOf(df_usd)][c]))
            /\ df_eur.rows[i] = df_usd.rows[i]

\* the amount-valued KPIs of the known-label table: their keys and their labels
AmountKeys == Range(usd_columns) \cup {<<"c", "a", "s", "h", "_", "d", "r", "a", "g">>}
AmountLabels ==
    {metric_mapping[i][1] : i \in {j \in 1..Len(metric_mapping) : metric_mapping[j][2] \in AmountKeys}}

\* C9: the metrics multiplied by the rate are exactly the amount-valued KPIs of
\* the known-label table, Cash Drag and the Handling & Warehouse lines included.
C9_AmountKpisConverted ==
    /\ (Converted /\ RateRows(df_usd) # {}) =>
        \A i \in 1..Len(df_usd.rows) : \A c \in PeriodCols(df_usd) :
            LET a == to_numeric(df_usd.rows[i][c])
                r == to_numeric(df_usd.rows[RateRowOf(df_usd)][c])
                amount == LabelOf(df_usd, i).t = "str" /\ LabelOf(df_usd, i).v \in AmountLabels
            IN IF amount /\ Convertible(a, r)
               THEN df_eur.rows[i][c] = Num(Mul(a.v, r.v))
               ELSE amount \/ df_eur.rows[i][c] = df_usd.rows[i][c]
    /\ LET u == Unconverted IN
       (PivotConverted /\ ColIndex(u, S_usd_eur_rate_eom) # 0) =>
        \A i \in 1..Len(u.rows) : \A c \in 1..Len(u.columns) :
            LET a == u.rows[i][c]
                r == u.rows[i][ColIndex(u, S_usd_eur_rate_eom)]
                amount == u.columns[c] \in AmountKeys
            IN IF amount /\ Convertible(a, r)
               THEN df_pivot.rows[i][c] = Num(Mul(a.v, r.v))
               ELSE amount \/ df_pivot.rows[i][c] = u.rows[i][c]

\* ---- the round trip wide -> long -> wide ----
\* the rows of w that carry a label
Named(w, i) == notna(w.rows[i][1]) /\ Strip(w.rows[i][1].v) # <<>>

\* the metric key of a labelled row
KeyOf(w, i) == standardize_metric_name(Strip(w.rows[i][1].v))

\* the number in the cell of row i and column c of w (missing: none)
ValueAt(w, i, c) == IF Named(w, i) THEN clean_currency_value(w.rows[i][c]) ELSE NA

\* the places of w that hold the number of metric key k in the period h
PlacesOf(w, h, k) ==
    {p \in (1..Len(w.rows)) \X (2..Len(w.columns)) :
        /\ w.columns[p[2]] = h
        /\ Named(w, p[1])
        /\ KeyOf(w, p[1]) = k
        /\ notna(ValueAt(w, p[1], p[2]))}

\* w with the periods as rows and the metric keys as columns: the periods that
\* hold a number, by header; the columns the pipeline requires, then the other
\* keys that hold a number, by name
Transposed(w) ==
    LET filled == {p \in (1..Len(w.rows)) \X (2..Len(w.columns)) : notna(ValueAt(w, p[1], p[2]))}
        periods == SortSet({w.columns[p[2]] : p \in filled}, StrLess)
        keys == {KeyOf(w, p[1]) : p \in filled}
        cols == required_columns \o SortSet(keys \ Range(required_columns), StrLess)
        cell(h, k) ==
            IF k = S_month THEN Str(h)
            ELSE IF PlacesOf(w, h, k) = {} THEN NA
            ELSE LET p == CHOOSE q \in PlacesOf(w, h, k) : TRUE IN ValueAt(w, p[1], p[2])
    IN DataFrame(cols, [i \in 1..Len(periods) |->
                            [j \in 1..Len(cols) |-> cell(periods[i], cols[j])]])

Duplicated(dl) ==
    {i \in 1..Len(dl) : \E j \in 1..Len(dl) :
        j # i /\ dl[j].month = dl[i].month /\ dl[j].metric = dl[i].metric}

\* the last record of the long table for a period and a metric key
LastRecord(dl, mo, k) ==
    LET at == {i \in 1..Len(dl) : dl[i].month = mo /\ dl[i].metric = k}
    IN CHOOSE i \in at : \A j \in at : j <= i

\* create_pipeline_compatible_format has been called on the long table
CreateCalled == df_long # <<>> /\ kpc \in {"pivot", "converted", "reconverted", "failed"}

\* C11 as stated: the conversion to the wide form of a long table that holds
\* two records for one (metric, period) pair succeeds, and the cell holds the
\* value of the later record.
C11_LastWriteWins ==
    (CreateCalled /\ Duplicated(df_long) # {}) =>
        /\ kerr = "none"
        /\ \A i \in Duplicated(df_long) :
            \E r \in 1..Len(df_pivot.rows) :
                /\ df_pivot.rows[r][1] = Str(df_long[i].month)
                /\ ColIndex(df_pivot, df_long[i].metric) # 0
                /\ convert_currency \/
                   df_pivot.rows[r][ColIndex(df_pivot, df_long[i].metric)] =
                        df_long[LastRecord(df_long, df_long[i].month, df_long[i].metric)].value

\* ---- the order of the long table ----
\* some period header of the long table was parsed to a date
SomeDateParsed(dl) == \E k \in 1..Len(dl) : dl[k].month_date # NaT

\* C12 as stated: the long table is ordered chronologically by period, then
\* alphabetically by metric key; when no period header parses, the records
\* keep the column order of the wide table (read weakly: the records of one
\* row of the wide table follow its columns from left to right).
C12_LongOrder ==
    kpc = "long" =>
        \A i \in 1..Len(df_long) : \A j \in 1..Len(df_long) :
            i < j =>
                IF SomeDateParsed(df_long)
                THEN /\ df_long[i].month_date <= df_long[j].month_date
                     /\ df_long[i].month_date = df_long[j].month_date =>
                            ~StrLess(df_long[j].metric, df_long[i].metric)
                ELSE df_long[i].original_metric = df_long[j].original_metric =>
                        ColIndex(wide, df_long[i].month) <= ColIndex(wide, df_long[j].month)

\* ---- percentages ----
\* the cell is a text that ends in '%' after a numeral
IsPercent(c) ==
    /\ c.t = "str"
    /\ EndsWith(Strip(c.v), <<"%">>)
    /\ notna(ParseNumber(SubSeq(Strip(c.v), 1, Len(Strip(c.v)) - 1)))

\* the numeral before the '%', divided by 100
PercentValue(c) == Num(Div100(ParseNumber(SubSeq(Strip(c.v), 1, Len(Strip(c.v)) - 1)).v))

\* C14 as stated: both cleaners turn a cell ending in '%' into its numeric
\* part divided by 100: the sheet-fetch cleaner (read as the number its text
\* stands for) and the wide-to-long converter.
C14_PercentDividedEverywhere ==
    /\ fpc = "cleaned" =>
            \A i \in 1..Len(sheet.rows) : \A c \in 1..Len(sheet.columns) :
                (sheet.columns[c] # S_month /\ IsPercent(sheet.rows[i][c])) =>
                    to_numeric(df_usd.rows[i][c]) = PercentValue(sheet.rows[i][c])
    /\ kpc = "long" =>
            \A k \in 1..Len(df_long) : \A i \in 1..Len(wide.rows) :
                (/\ wide.rows[i][1] = Str(df_long[k].original_metric)
                 /\ IsPercent(wide.rows[i][ColIndex(wide, df_long[k].month)])) =>
                    df_long[k].value = PercentValue(wide.rows[i][ColIndex(wide, df_long[k].month)])

(***************************************************************************)
(* Claims about the cleaning, metric and validation functions              *)
(***************************************************************************)
\* the text of a string cell holds no digit
NoDigit(c) == c.t = "str" /\ \A i \in 1..Len(c.v) : ~IsDigit(c.v[i])

\* C13: clean_currency_value is total: for every raw cell it returns a float
\* (a number or the missing marker NaN) and never raises; a text that is no
\* numeral, such as '()', '%', '$' or 'abc', yields the missing marker.
C13_CleanTotal ==
    upc = "clean_currency_value" =>
        /\ res.exc = "none"
        /\ res.val.t \in {"num", "inf", "na"}
        /\ (arg.t = "na" \/ (NoDigit(arg) /\ arg.v # <<"i", "n", "f">>)) => res.val = NA

\* '()' cleaned to the missing marker, without an exception
C13_Witness ==
    /\ upc = "clean_currency_value"
    /\ arg = Str(<<"(", ")">>)
    /\ res = Ok(NA)

\* C15 as stated: a raw label gets the same metric key wherever it is
\* standardized: the key of the known-label table, otherwise the label in
\* lower case with '_' for blanks and 'num' for '#'; the column renaming of
\* clean_data gives the key standardize_metric_name gives.
C15_SameKeyEverywhere ==
    /\ upc = "standardize_metric_name" =>
            res = (IF MappedKey(arg) # <<>> THEN MappedKey(arg) ELSE FallbackKey(arg))
    /\ upc = "column_mapping" => res = standardize_metric_name(arg)

\* C16 as stated: a period whose header no date format reads is never dropped
\* and raises nothing: every period of the table is in the cleaned output,
\* the unparsed ones marked as such and carrying their header.
C16_UnparsedKept ==
    upc = "clean_data" =>
        /\ res.exc = "none"
        /\ \A i \in 1..Len(arg) : \E k \in 1..Len(res.val) :
                /\ res.val[k].row = i
                /\ res.val[k].header = arg[i]

\* C17 as stated: the growth of the first period is missing, and the growth
\* at every later period t is (value[t] - value[t-1]) / value[t-1] * 100.
C17_GrowthFormula ==
    upc = "calculate_metrics" =>
        \A t \in 1..Len(arg) :
            res.val.gmv_mom_growth[t] =
                IF t = 1 THEN NA
                ELSE FMul100(FDiv(FSub(arg[t].gmv, arg[t - 1].gmv), arg[t - 1].gmv))

\* C18 as stated: boxes_per_invoice is missing whenever num_invoices is zero
\* or an operand is missing; it is never infinite, and computing it raises
\* nothing.
C18_RatioMissing ==
    upc = "calculate_metrics" =>
        /\ res.exc = "none"
        /\ \A t \in 1..Len(arg) :
                /\ res.val.boxes_per_invoice[t].t # "inf"
                /\ (\/ arg[t].num_invoices = Real(0, 1)
                    \/ isna(arg[t].num_invoices)
                    \/ isna(arg[t].num_boxes)) => isna(res.val.boxes_per_invoice[t])

\* C19: the days-outstanding tier is 'Excellent' up to 20, 'Good' above 20 and
\* up to 25, 'Needs Improvement' above 25, and missing (None), never one of
\* the three tiers, when avg_days_outstanding is missing.
C19_Tiers ==
    upc = "calculate_metrics" =>
        \A t \in 1..Len(arg) :
            LET x == arg[t].avg_days_outstanding
                tier == res.val.days_performance[t]
            IN IF isna(x) THEN tier = PyNone
               ELSE IF x.n <= 20 * x.d THEN tier = Str(<<"E", "x", "c", "e", "l", "l", "e", "n", "t">>)
               ELSE IF x.n <= 25 * x.d THEN tier = Str(<<"G", "o", "o", "d">>)
               ELSE tier = Str(<<"N", "e", "e", "d", "s", " ", "I", "m", "p", "r", "o", "v", "e", "m", "e", "n", "t">>)

\* a table with 20 days (Excellent), 20.5 and 25 days (Good), 25.5 days (Needs
\* Improvement) or no days at all (no tier) in its rows
C19_Witness ==
    /\ upc = "calculate_metrics"
    /\ Len(arg) = 3
    /\ arg[1].avg_days_outstanding = Real(41, 2)
    /\ arg[2].avg_days_outstanding = NA
    /\ arg[3].avg_days_outstanding = Real(51, 2)
    /\ res.val.days_performance = <<Str(<<"G", "o", "o", "d">>), PyNone, Str(<<"N", "e", "e", "d", "s", " ", "I", "m", "p", "r", "o", "v", "e", "m", "e", "n", "t">>)>>

\* ---- continuity of the periods ----
\* the column name is MMM-YY: a month of month_order, a dash, two digits
IsMonthYear(col) ==
    /\ Len(col) = 6
    /\ IndexOf(SubSeq(col, 1, 3), month_order) # 0
    /\ col[4] = "-"
    /\ AllDigits(SubSeq(col, 5, 6))

\* the month (1..12) and the two-digit year of a column named MMM-YY
MonthOf(col) == IndexOf(SubSeq(col, 1, 3), month_order)
YearOf(col) == DigitsVal(SubSeq(col, 5, 6))

\* b is the month after a; after the December of a year comes the January of
\* the next two-digit year
Consecutive(a, b) ==
    \/ MonthOf(a) < 12 /\ MonthOf(b) = MonthOf(a) + 1 /\ YearOf(b) = YearOf(a)
    \/ MonthOf(a) = 12 /\ MonthOf(b) = 1 /\ YearOf(b) = (YearOf(a) + 1) % 100

\* C20 as stated: on columns named MMM-YY the check reports exactly one
\* 'Non-consecutive periods' issue for each adjacent pair that is not
\* consecutive and none for a consecutive pair, December of YY followed by
\* January of the next year being consecutive for every two-digit YY.
C20_OneIssuePerGap ==
    (/\ upc = "check_period_continuity"
     /\ arg.rows > 0
     /\ Len(arg.columns) > 2
     /\ \A c \in 2..Len(arg.columns) : IsMonthYear(arg.columns[c])) =>
        /\ res.exc = "none"
        /\ LET isGap(pair) == ~Consecutive(pair[1], pair[2])
                isReport(issue) == issue.message[1] = "Non-consecutive periods"
                pairs == [c \in 1..(Len(arg.columns) - 2) |->
                            <<arg.columns[c + 1], arg.columns[c + 2]>>]
                reports == SelectSeq(res.val, isReport)
           IN [j \in 1..Len(reports) |-> <<reports[j].message[2], reports[j].message[3]>>]
                = SelectSeq(pairs, isGap)

(***************************************************************************)
(* Claims about the dashboard document                                     *)
(***************************************************************************)
\* the period columns of df_usd whose formatted name is not excluded
KeptColumns(du, config) ==
    LET cols == date_cols(du)
        excluded == IF config.file THEN Range(config.exclude_periods) ELSE {}
        kept(c) == FormatPeriod(du.columns[c]) \notin excluded
    IN SelectSeq(cols, kept)

\* the values of the (last) row named key under the kept columns
KeptValues(df, key, du, config) ==
    LET mi == ColIndex(df, S_month)
        i == CHOOSE r \in 1..Len(df.rows) :
                /\ MetricName(df.rows[r][mi]) = key
                /\ \A j \in (r + 1)..Len(df.rows) : MetricName(df.rows[j][mi]) # key
        kc == KeptColumns(du, config)
    IN [k \in 1..Len(kc) |-> JsonValue(df.rows[i][ColIndex(df, du.columns[kc[k]])])] \o <<>>

\* C21: in the document prepare_dashboard_json returns, no excluded period is
\* in 'periods', and every value list of values_usd and of values_eur is as
\* long as 'periods', its i-th value being the one of the i-th period.
C21_ValuesFollowPeriods ==
    (upc = "prepare_dashboard_json" /\ res.exc = "none") =>
        LET doc == res.val
            kc == KeptColumns(arg.df_usd, arg.config)
        IN /\ doc.periods = [k \in 1..Len(kc) |-> FormatPeriod(arg.df_usd.columns[kc[k]])] \o <<>>
           /\ \A key \in DOMAIN doc.values_usd :
                 doc.values_usd[key] = KeptValues(arg.df_usd, key, arg.df_usd, arg.config)
           /\ \A key \in DOMAIN doc.values_eur :
                 doc.values_eur[key] = KeptValues(arg.df_eur, key, arg.df_usd, arg.config)

(***************************************************************************)
(* Claims about authentication and sessions                                *)
(***************************************************************************)
\* an authenticate call for the address of the row in the table
AuthenticateOwn ==
    /\ nreq' # nreq
    /\ resp'.op = "authenticate"
    /\ user.id # 0
    /\ resp'.given.email = user.email

WrongPassword == ~verify_password(resp'.given.password, user.password_hash)

\* C22: for an active, unlocked user, each wrong-password authenticate raises
\* AuthenticationError and adds exactly one to failed_login_attempts, until
\* the MAX_LOGIN_ATTEMPTS-th wrong password in a row, which raises
\* AccountLockedError and sets locked_until to a time in the future.
C22_CountThenLock ==
    [][(AuthenticateOwn /\ user.active /\ user.locked_until = NoTime /\ WrongPassword)
       => /\ user'.failed_login_attempts = user.failed_login_attempts + 1
          /\ IF user.failed_login_attempts + 1 < MAX_LOGIN_ATTEMPTS
             THEN resp'.exc = "AuthenticationError" /\ user'.locked_until = NoTime
             ELSE resp'.exc = "AccountLockedError" /\ user'.locked_until > now]_vars

\* the wrong password that locked the account
C22_Witness ==
    /\ resp.op = "authenticate"
    /\ resp.exc = "AccountLockedError"
    /\ resp.msg = "Account locked after"
    /\ user.failed_login_attempts = MAX_LOGIN_ATTEMPTS
    /\ user.locked_until > now

\* the claim on locked accounts, for every user or for the active ones only
LockedThenExpired(active_only) ==
    (AuthenticateOwn /\ user.locked_until # NoTime /\ (active_only => user.active))
    => IF now < user.locked_until
       THEN /\ resp'.exc = "AccountLockedError"
            /\ resp'.token = NoToken
            /\ user'.failed_login_attempts = user.failed_login_attempts
            /\ user'.locked_until = user.locked_until
       ELSE /\ resp'.commits # <<>>
            /\ resp'.commits[1].failed_login_attempts = 0
            /\ resp'.commits[1].locked_until = NoTime
            /\ Len(resp'.commits) = 2

\* C23 as stated: while locked_until is in the future every authenticate raises
\* AccountLockedError, right password or not, issues no token and leaves
\* failed_login_attempts and locked_until unchanged; the first authenticate
\* after locked_until has passed resets both before the password is checked.
C23_LockedRejected == [][LockedThenExpired(FALSE)]_vars

\* C23, for active users: while locked_until is in the future every
\* authenticate raises AccountLockedError, right password or not, issues no
\* token and leaves failed_login_attempts and locked_until unchanged; the
\* first authenticate after locked_until has passed resets both before the
\* password is checked.
C23_ActiveLockedRejected == [][LockedThenExpired(TRUE)]_vars

\* the right password, refused while the lock lasts
C23_Witness ==
    /\ resp.op = "authenticate"
    /\ resp.msg = "Account is locked"
    /\ verify_password(resp.given.password, user.password_hash)
    /\ user.active
    /\ now > 0
    /\ now < user.locked_until

\* C24: for an inactive user every authenticate raises AuthenticationError
\* whatever the password, issues no token and leaves failed_login_attempts,
\* locked_until and last_login unchanged; only update_user makes the user
\* active again.
C24_InactiveRejected ==
    [][/\ (AuthenticateOwn /\ ~user.active)
          => /\ resp'.exc = "AuthenticationError"
             /\ resp'.token = NoToken
             /\ user' = user
       /\ (user.id # 0 /\ ~user.active /\ user'.active)
          => resp'.op = "update_user"]_vars

\* the right password of a deactivated user, refused
C24_Witness ==
    /\ resp.op = "authenticate"
    /\ resp.msg = "Account is inactive"
    /\ verify_password(resp.given.password, user.password_hash)
    /\ user.last_login # NoTime

\* C28: in every reachable state of a created user 0 <= failed_login_attempts
\* <= MAX_LOGIN_ATTEMPTS, and locked_until is set exactly when
\* failed_login_attempts equals MAX_LOGIN_ATTEMPTS.
C28_CounterAndLock ==
    user.id # 0 =>
        /\ 0 <= user.failed_login_attempts
        /\ user.failed_login_attempts <= MAX_LOGIN_ATTEMPTS
        /\ (user.locked_until # NoTime) <=> (user.failed_login_attempts = MAX_LOGIN_ATTEMPTS)

\* a wrong password right after a lock has expired
C28_Witness ==
    /\ resp.op = "authenticate"
    /\ Len(resp.commits) = 2
    /\ resp.exc = "AuthenticationError"
    /\ user.failed_login_attempts = 1
    /\ user.locked_until = NoTime

\* a request to a route behind require_auth presents a token that a logout
\* was answered 200 for
PresentsLoggedOut ==
    /\ nreq' # nreq
    /\ resp'.op \in {"verify", "logout"}
    /\ \/ resp'.given.header \in loggedout
       \/ resp'.given.auth_token \in loggedout

\* C25: after POST /api/auth/logout has succeeded for a token, every later
\* request presenting that token, in the Authorization header or in the
\* auth_token cookie, to a route behind require_auth is answered 401.
C25_LogoutInvalidates == [][PresentsLoggedOut => resp'.status = 401]_vars

(***************************************************************************)
(* Claims about the order and the dates of the pipeline's rows             *)
(***************************************************************************)
\* the text is of the form M/D/YY
IsMDYShort(s) ==
    /\ SlashFields(s) # <<>>
    /\ Len(SlashFields(s)[3]) = 2
    /\ AllDigits(SlashFields(s)[3])

\* C27: a period header in M/D/YY form is parsed to the year 2000 + YY for
\* every two-digit YY from 00 to 99; no century window is applied.
C27_ThisCentury ==
    (upc = "clean_data" /\ res.exc = "none") =>
        \A k \in 1..Len(res.val) :
            IsMDYShort(res.val[k].header) =>
                res.val[k].month \div 10000 = 2000 + DigitsVal(SlashFields(res.val[k].header)[3])

\* the position row k of the result has when the rows are put in ascending
\* order of their period
RankOf(rows, k) == Cardinality({j \in 1..Len(rows) : rows[j].month <= rows[k].month})

\* the derived columns computed over the rows in ascending order of period
InPeriodOrder(raw, rows) ==
    calculate_metrics_columns(
        [p \in 1..Len(rows) |->
            raw[rows[CHOOSE k \in 1..Len(rows) : RankOf(rows, k) = p].row].cells] \o <<>>)

\* C26: transform_data computes the month-over-month growth, the 3-period
\* moving average and the cumulative sum over the rows in ascending calendar
\* order of their period, whatever the row order of the loaded table (here:
\* tables whose periods are all different).
C26_PeriodOrder ==
    (/\ upc = "transform_data"
     /\ \A j, k \in 1..Len(res.val.rows) :
            res.val.rows[j].month = res.val.rows[k].month => j = k)
    => \A k \in 1..Len(res.val.rows) :
        LET expected == InPeriodOrder(arg, res.val.rows)
            p == RankOf(res.val.rows, k)
        IN /\ res.val.metrics.gmv_mom_growth[k] = expected.gmv_mom_growth[p]
           /\ res.val.metrics.gmv_ma3[k] = expected.gmv_ma3[p]
           /\ res.val.metrics.cumulative_gmv[k] = expected.cumulative_gmv[p]

(***************************************************************************)
(* Claims about concurrent requests                                        *)
(***************************************************************************)
\* the requests whose wrong password has been checked and answered
WrongAttempts == {i \in 1..Len(sessions) : sessions[i].pc = "done" /\ sessions[i].checked}

\* C29: when wrong-password logins for one user run concurrently, each on its
\* own database session, no failed attempt is lost: once MAX_LOGIN_ATTEMPTS
\* of them have completed the account is locked, so at most
\* MAX_LOGIN_ATTEMPTS passwords are checked before a lock.
C29_NoLostAttempt ==
    nticks = 0 =>
        /\ Cardinality(WrongAttempts) >= MAX_LOGIN_ATTEMPTS => user.locked_until # NoTime
        /\ Cardinality(WrongAttempts) <= MAX_LOGIN_ATTEMPTS

\* C30: when two dashboard updates run concurrently on the same output paths,
\* then after both have finished the wide CSV and the dashboard JSON on disk
\* were written by the same run, so both files describe the same dataset.
C30_SameRun ==
    (Len(runs) >= 2 /\ \A i \in 1..Len(runs) : runs[i].pc = "done")
    => /\ csv_file.run = json_file.run
       /\ csv_file.version = json_file.version

====
